---- MODULE Spec2Model ----
(***************************************************************************)
(* A model of the educational compiler pipeline of this repository:        *)
(* src/app/compiler.c (lexer, symbol table, parser, semantic checker,      *)
(* register pool, instruction encoder, code generator, compile_program).   *)
(* Characters are one-character strings, C strings are sequences of them,  *)
(* and the terminating NUL is the value NUL.                               *)
(***************************************************************************)
EXTENDS Integers, Sequences, FiniteSets, TLC

VARIABLES
    source_code,             \* the argument of compile_program
    pc,                      \* position of the control flow in compile_program
    position,                \* break_into_tokens: int position
    current_line,            \* break_into_tokens: int current_line
    all_tokens,              \* Token all_tokens[]; current_token_count is its length
    current_token_position,
    symbol_table,            \* Symbol symbol_table[]; symbols_found is its length
    next_memory_location,
    error_log,               \* error_log.error_messages; error_count is its length
    warnings,                \* the warning lines written to stderr
    program_start,           \* parse_program: the root of the statement list
    heap,                    \* [allocs, frees]: create_tree_node / free counts
    used_registers,          \* register_pool.used_registers
    code_section_emitted,    \* generate_assembly_code: static int
    output,                  \* the lines written to the output file
    phase_log,               \* the phases this invocation has run, in order
    history,                 \* what each finished invocation reported
    arguments,               \* a function called on its own: the call and its arguments
    returned,                \* a function called on its own: what it returned
    held                     \* how many register names callers keep, by register

vars == <<source_code, pc, position, current_line, all_tokens,
          current_token_position, symbol_table, next_memory_location, error_log,
          warnings, program_start, heap, used_registers,
          code_section_emitted, output, phase_log, history, arguments, returned, held>>

\* the variables of the functions called on their own
called == <<arguments, returned, held>>

(***************************************************************************)
(* Program constants.                                                      *)
(***************************************************************************)
MAX_NAME_LENGTH == 32
MAX_TOKENS == 1000
MAX_SYMBOLS == 100
MAX_ERRORS == 100
REGISTER_COUNT == 32
SLOT_SIZE == 8

(***************************************************************************)
(* Function calls.  The C functions call one another through their        *)
(* declarations, in any order and recursively.  F_(x, ...) is the call of  *)
(* the function that the operator F models: Call(fn, a) applies the        *)
(* operator named fn to the arguments a, and is defined after the last of  *)
(* the operators it names.                                                 *)
(***************************************************************************)
RECURSIVE Call(_, _)

parse_unary_expression_(s) == Call("parse_unary_expression", <<s>>)
parse_primary_expression_(s) == Call("parse_primary_expression", <<s>>)
parse_postfix_expression_(s) == Call("parse_postfix_expression", <<s>>)
MultiplicativeLoop_(left_side, s) == Call("MultiplicativeLoop", <<left_side, s>>)
parse_multiplicative_expression_(s) == Call("parse_multiplicative_expression", <<s>>)
AdditiveLoop_(left_side, s) == Call("AdditiveLoop", <<left_side, s>>)
parse_additive_expression_(s) == Call("parse_additive_expression", <<s>>)
parse_expression_(s) == Call("parse_expression", <<s>>)
parse_assignment_(s) == Call("parse_assignment", <<s>>)
DeclarationLoop_(s, type_token, declaration_list) ==
    Call("DeclarationLoop", <<s, type_token, declaration_list>>)
parse_declaration_(s) == Call("parse_declaration", <<s>>)
IncrementStatement_(s, op_token, var_token) ==
    Call("IncrementStatement", <<s, op_token, var_token>>)
StatementFallback_(s) == Call("StatementFallback", <<s>>)
parse_statement_(s) == Call("parse_statement", <<s>>)
parse_program_(s, program_start_, current_statement) ==
    Call("parse_program", <<s, program_start_, current_statement>>)
create_instruction_code_(instruction_name, source_reg, target_reg, dest_reg, immediate_value) ==
    Call("create_instruction_code", <<instruction_name, source_reg, target_reg,
                                      dest_reg, immediate_value>>)
generate_expression_code_(node, g, result_register) ==
    Call("generate_expression_code", <<node, g, result_register>>)
generate_unary_operation_code_(node, g) ==
    Call("generate_unary_operation_code", <<node, g>>)
generate_compound_assignment_code_(variable_name, expression, operator, g) ==
    Call("generate_compound_assignment_code", <<variable_name, expression,
                                                operator, g>>)
generate_assignment_code_(variable_name, expression, g) ==
    Call("generate_assignment_code", <<variable_name, expression, g>>)
ZeroInitPass_(current, g) == Call("ZeroInitPass", <<current, g>>)
StatementPass_(current, g) == Call("StatementPass", <<current, g>>)
generate_assembly_code_(node, g, emitted) ==
    Call("generate_assembly_code", <<node, g, emitted>>)
T_parse_unary_expression_(s) == Call("T_parse_unary_expression", <<s>>)
T_parse_primary_expression_(s) == Call("T_parse_primary_expression", <<s>>)
T_parse_postfix_expression_(s) == Call("T_parse_postfix_expression", <<s>>)
T_MultiplicativeLoop_(left_side, s) == Call("T_MultiplicativeLoop", <<left_side, s>>)
T_parse_multiplicative_expression_(s) ==
    Call("T_parse_multiplicative_expression", <<s>>)
T_AdditiveLoop_(left_side, s) == Call("T_AdditiveLoop", <<left_side, s>>)
T_parse_additive_expression_(s) == Call("T_parse_additive_expression", <<s>>)
T_parse_expression_(s) == Call("T_parse_expression", <<s>>)
T_parse_assignment_(s) == Call("T_parse_assignment", <<s>>)
T_DeclarationLoop_(s, type_token, var_type, declaration_list) ==
    Call("T_DeclarationLoop", <<s, type_token, var_type, declaration_list>>)
T_parse_declaration_(s) == Call("T_parse_declaration", <<s>>)
T_IncrementStatement_(s, op_token, var_token) ==
    Call("T_IncrementStatement", <<s, op_token, var_token>>)
T_ExpressionStatement_(s) == Call("T_ExpressionStatement", <<s>>)
T_parse_statement_(s) == Call("T_parse_statement", <<s>>)
T_parse_program_(s, program_start_, current_statement) ==
    Call("T_parse_program", <<s, program_start_, current_statement>>)
T_create_instruction_code_(instruction_name, source_reg, target_reg, dest_reg, immediate_value) ==
    Call("T_create_instruction_code", <<instruction_name, source_reg, target_reg,
                                        dest_reg, immediate_value>>)
T_load_float_constant_(value, float_reg, g) ==
    Call("T_load_float_constant", <<value, float_reg, g>>)
T_generate_expression_code_(node, g, result_register) ==
    Call("T_generate_expression_code", <<node, g, result_register>>)
T_generate_assignment_code_(variable_name, expression, g) ==
    Call("T_generate_assignment_code", <<variable_name, expression, g>>)
T_ZeroInitPass_(current, g) == Call("T_ZeroInitPass", <<current, g>>)
T_CompoundAssignment_(current, i, g) == Call("T_CompoundAssignment", <<current, i, g>>)
T_StatementPass_(current, g) == Call("T_StatementPass", <<current, g>>)
T_generate_assembly_code_(node, g) == Call("T_generate_assembly_code", <<node, g>>)
get_register_number_(register_name) == Call("get_register_number", <<register_name>>)
T_get_register_number_(register_name) ==
    Call("T_get_register_number", <<register_name>>)
atoi_(text) == Call("atoi", <<text>>)
T_atof_(text) == Call("T_atof", <<text>>)
DoubleBits_(f) == Call("DoubleBits", <<f>>)
FloatToInt_(f) == Call("FloatToInt", <<f>>)
DecimalOf_(text) == Call("DecimalOf", <<text>>)
release_register_by_name_(used, reg_name) ==
    Call("release_register_by_name", <<used, reg_name>>)
get_register_(used) == Call("get_register", <<used>>)
ExpectSemicolon_(r) == Call("ExpectSemicolon", <<r>>)
T_get_expression_type_(node, syms) == Call("T_get_expression_type", <<node, syms>>)
add_variable_(s, variable_name, line_number) ==
    Call("add_variable", <<s, variable_name, line_number>>)
T_add_variable_(s, variable_name, line_number, type) ==
    Call("T_add_variable", <<s, variable_name, line_number, type>>)
expect_token_(s, expected_type, expected_text) ==
    Call("expect_token", <<s, expected_type, expected_text>>)
T_expect_token_(s, expected_type, expected_text) ==
    Call("T_expect_token", <<s, expected_type, expected_text>>)
SkipStatement_(s) == Call("SkipStatement", <<s>>)
find_variable_(syms, variable_name) == Call("find_variable", <<syms, variable_name>>)
check_program_semantics_(node, cs) == Call("check_program_semantics", <<node, cs>>)
T_check_program_semantics_(node, cs) == Call("T_check_program_semantics", <<node, cs>>)
CheckReference_(cs, name, line_number, warn) ==
    Call("CheckReference", <<cs, name, line_number, warn>>)
mark_variable_initialized_(syms, variable_name) ==
    Call("mark_variable_initialized", <<syms, variable_name>>)
mark_variable_used_(syms, variable_name) ==
    Call("mark_variable_used", <<syms, variable_name>>)
T_Number_(g, ref) == Call("T_Number", <<g, ref>>)
check_for_unused_variables_(syms) == Call("check_for_unused_variables", <<syms>>)
find_instruction_(instruction_name) == Call("find_instruction", <<instruction_name>>)
T_find_instruction_(instruction_name) ==
    Call("T_find_instruction", <<instruction_name>>)

(***************************************************************************)
(* Characters.                                                             *)
(***************************************************************************)
NUL == "NUL"

Digits == <<"0", "1", "2", "3", "4", "5", "6", "7", "8", "9">>

LowerCase == {"a", "b", "c", "d", "e", "f", "g", "h", "i", "j", "k", "l", "m",
              "n", "o", "p", "q", "r", "s", "t", "u", "v", "w", "x", "y", "z"}

UpperCase == {"A", "B", "C", "D", "E", "F", "G", "H", "I", "J", "K", "L", "M",
              "N", "O", "P", "Q", "R", "S", "T", "U", "V", "W", "X", "Y", "Z"}

\* The printable ASCII characters 32..126 in code order (code 96 is spelled out).
AsciiPrintable ==
    <<" ", "!", "\"", "#", "$", "%", "&", "'", "(", ")", "*", "+", ",", "-", ".", "/",
      "0", "1", "2", "3", "4", "5", "6", "7", "8", "9", ":", ";", "<", "=", ">", "?",
      "@", "A", "B", "C", "D", "E", "F", "G", "H", "I", "J", "K", "L", "M", "N", "O",
      "P", "Q", "R", "S", "T", "U", "V", "W", "X", "Y", "Z", "[", "\\", "]", "^", "_",
      "BACKTICK", "a", "b", "c", "d", "e", "f", "g", "h", "i", "j", "k", "l", "m", "n", "o",
      "p", "q", "r", "s", "t", "u", "v", "w", "x", "y", "z", "{", "|", "}", "~">>

\* (unsigned char)c
Ord(c) ==
    IF c = NUL THEN 0
    ELSE IF c = "\t" THEN 9
    ELSE IF c = "\n" THEN 10
    ELSE IF c = "\r" THEN 13
    ELSE 31 + (CHOOSE i \in 1..Len(AsciiPrintable) : AsciiPrintable[i] = c)

IS_WHITESPACE(c) == c \in {" ", "\t", "\n", "\r"}

IS_LETTER(c) == c \in LowerCase \cup UpperCase \cup {"_"}

IS_DIGIT(c) == \E i \in 1..Len(Digits) : Digits[i] = c

IS_ALPHANUMERIC(c) == IS_LETTER(c) \/ IS_DIGIT(c)

DigitValue(c) == (CHOOSE i \in 1..Len(Digits) : Digits[i] = c) - 1

\* snprintf(num_str, sizeof(num_str), "%d", n) for n >= 0
RECURSIVE IntToText(_)
IntToText(n) ==
    IF n < 10 THEN <<Digits[n + 1]>>
    ELSE Append(IntToText(n \div 10), Digits[(n % 10) + 1])

RECURSIVE DigitsToInt(_, _)
DigitsToInt(text, acc) ==
    IF text = <<>> \/ ~IS_DIGIT(Head(text)) THEN acc
    ELSE DigitsToInt(Tail(text), 10 * acc + DigitValue(Head(text)))

\* atoi(text): optional sign, then the leading digits
atoi(text) ==
    IF text = <<>> THEN 0
    ELSE IF Head(text) = "-" THEN 0 - DigitsToInt(Tail(text), 0)
    ELSE IF Head(text) = "+" THEN DigitsToInt(Tail(text), 0)
    ELSE DigitsToInt(text, 0)

\* source_code[p] with p counted from 0 as in C
CharAt(src, p) == IF p >= 0 /\ p < Len(src) THEN src[p + 1] ELSE NUL

(***************************************************************************)
(* Error log.                                                              *)
(***************************************************************************)
ErrorRecord(line_number, message, arg) ==
    [message |-> message, arg |-> arg, line |-> line_number]

record_error(errs, line_number, message, arg) ==
    IF Len(errs) < MAX_ERRORS
    THEN Append(errs, ErrorRecord(line_number, message, arg))
    ELSE errs

(***************************************************************************)
(* Lexer.  A lexer state is [position, current_line, all_tokens,           *)
(* error_log].                                                             *)
(***************************************************************************)
Token(type, text, line_number) == [type |-> type, text |-> text, line |-> line_number]

identify_keyword(word) ==
    IF word = <<"i", "n", "t">> THEN "INT_KEYWORD"
    ELSE IF word = <<"c", "h", "a", "r">> THEN "CHAR_KEYWORD"
    ELSE "IDENTIFIER"

\* strncpy(text, text_value, MAX_NAME_LENGTH - 1)
Truncate(text) ==
    IF Len(text) > MAX_NAME_LENGTH - 1 THEN SubSeq(text, 1, MAX_NAME_LENGTH - 1) ELSE text

\* save_token, were a full array to take the new token in its last slot
save_token_overwriting(st, type, text_value, line_number) ==
    IF Len(st.all_tokens) < MAX_TOKENS
    THEN [st EXCEPT !.all_tokens = Append(@, Token(type, Truncate(text_value), line_number))]
    ELSE [st EXCEPT !.all_tokens[MAX_TOKENS] = Token(type, Truncate(text_value), line_number),
                    !.error_log =
                        record_error(@, line_number, "Too many tokens in program", <<>>)]

save_token(st, type, text_value, line_number) ==
    IF Len(st.all_tokens) < MAX_TOKENS
    THEN [st EXCEPT !.all_tokens = Append(@, Token(type, Truncate(text_value), line_number))]
    ELSE [st EXCEPT !.error_log =
              record_error(@, line_number, "Too many tokens in program", <<>>)]

\* the inner loop of a // comment: the first index at or after p holding NUL or newline
RECURSIVE LineEnd(_, _)
LineEnd(src, p) ==
    IF CharAt(src, p) = NUL \/ CharAt(src, p) = "\n" THEN p ELSE LineEnd(src, p + 1)

\* the inner loop of a /* comment; c is [position, current_line, comment_depth]
RECURSIVE CommentBody(_, _)
CommentBody(src, c) ==
    IF CharAt(src, c.position) = NUL \/ c.comment_depth <= 0 THEN c
    ELSE IF CharAt(src, c.position) = "\n"
    THEN CommentBody(src, [c EXCEPT !.current_line = @ + 1, !.position = @ + 1])
    ELSE IF CharAt(src, c.position) = "/" /\ CharAt(src, c.position + 1) = "*"
    THEN CommentBody(src, [c EXCEPT !.comment_depth = @ + 1, !.position = @ + 2])
    ELSE IF CharAt(src, c.position) = "*" /\ CharAt(src, c.position + 1) = "/"
    THEN CommentBody(src, [c EXCEPT !.comment_depth = @ - 1, !.position = @ + 2])
    ELSE CommentBody(src, [c EXCEPT !.position = @ + 1])

RECURSIVE skip_spaces_and_comments(_, _)
skip_spaces_and_comments(src, st) ==
    LET c == CharAt(src, st.position) IN
    IF c = NUL THEN st
    ELSE IF IS_WHITESPACE(c)
    THEN skip_spaces_and_comments(src,
             [st EXCEPT !.position = @ + 1,
                        !.current_line = IF c = "\n" THEN @ + 1 ELSE @])
    ELSE IF c = "/" /\ CharAt(src, st.position + 1) = "/"
    THEN LET e == LineEnd(src, st.position + 2) IN
         IF CharAt(src, e) = "\n"
         THEN skip_spaces_and_comments(src,
                  [st EXCEPT !.position = e + 1, !.current_line = @ + 1])
         ELSE skip_spaces_and_comments(src, [st EXCEPT !.position = e])
    ELSE IF c = "/" /\ CharAt(src, st.position + 1) = "*"
    THEN LET b == CommentBody(src, [position |-> st.position + 2,
                                    current_line |-> st.current_line,
                                    comment_depth |-> 1])
             after == [st EXCEPT !.position = b.position,
                                 !.current_line = b.current_line]
         IN IF b.comment_depth > 0
            THEN [after EXCEPT !.error_log =
                      record_error(@, b.current_line, "Unterminated multi-line comment", <<>>)]
            ELSE skip_spaces_and_comments(src, after)
    ELSE st

\* while (IS_DIGIT(source_code[position]) && buffer_index < MAX_NAME_LENGTH - 1)
RECURSIVE ReadWhile(_, _, _, _)
ReadWhile(src, p, buf, digits_only) ==
    LET c == CharAt(src, p) IN
    IF (IF digits_only THEN IS_DIGIT(c) ELSE IS_ALPHANUMERIC(c))
       /\ Len(buf) < MAX_NAME_LENGTH - 1
    THEN ReadWhile(src, p + 1, Append(buf, c), digits_only)
    ELSE [position |-> p, buffer |-> buf]

\* the resynchronisation loop after an unterminated character literal
RECURSIVE SkipToQuote(_, _)
SkipToQuote(src, p) ==
    IF CharAt(src, p) # NUL /\ CharAt(src, p) # "'" /\ CharAt(src, p) # "\n"
    THEN SkipToQuote(src, p + 1)
    ELSE p

\* is_unary_minus / is_unary_plus of break_into_tokens: despite the name, TRUE
\* means the sign is a binary operator and is not folded into the literal
PrevCharIsOperand(src, p) ==
    IF p > 0
    THEN LET prev_char == CharAt(src, p - 1) IN
         IS_LETTER(prev_char) \/ IS_DIGIT(prev_char) \/ prev_char = ")" \/ prev_char = "]"
    ELSE FALSE

\* the character-literal branch of break_into_tokens
LexCharLiteral(src, st) ==
    LET p1 == st.position + 1
        escaped == CharAt(src, p1) = "\\"
        e == CharAt(src, p1 + 1)
        known == e \in {"n", "t", "r", "0", "\\", "'"}
        char_value ==
            IF ~escaped THEN Ord(CharAt(src, p1))
            ELSE IF e = "n" THEN 10
            ELSE IF e = "t" THEN 9
            ELSE IF e = "r" THEN 13
            ELSE IF e = "0" THEN 0
            ELSE Ord(e)
        p2 == IF escaped THEN p1 + 2 ELSE p1 + 1
        s1 == IF escaped /\ ~known
              THEN [st EXCEPT !.error_log =
                        record_error(@, st.current_line, "Unknown escape sequence", <<e>>)]
              ELSE st
    IN IF CharAt(src, p2) = "'"
       THEN save_token([s1 EXCEPT !.position = p2 + 1], "CHAR_LITERAL",
                       IntToText(char_value), st.current_line)
       ELSE LET q == SkipToQuote(src, p2) IN
            [s1 EXCEPT !.error_log =
                 record_error(@, st.current_line, "Unterminated character literal", <<>>),
                       !.position = IF CharAt(src, q) = "'" THEN q + 1 ELSE q]

TwoCharOperators ==
    [t \in {<<"+", "+">>, <<"-", "-">>, <<"+", "=">>, <<"-", "=">>, <<"*", "=">>, <<"/", "=">>}
        |-> IF t = <<"+", "+">> THEN "INCREMENT"
            ELSE IF t = <<"-", "-">> THEN "DECREMENT"
            ELSE IF t = <<"+", "=">> THEN "PLUS_ASSIGN"
            ELSE IF t = <<"-", "=">> THEN "MINUS_ASSIGN"
            ELSE IF t = <<"*", "=">> THEN "MULTIPLY_ASSIGN"
            ELSE "DIVIDE_ASSIGN"]

OneCharOperators ==
    [c \in {"+", "-", "*", "/", "=", ";", "(", ")", ","}
        |-> IF c = "+" THEN "PLUS"
            ELSE IF c = "-" THEN "MINUS"
            ELSE IF c = "*" THEN "MULTIPLY"
            ELSE IF c = "/" THEN "DIVIDE"
            ELSE IF c = "=" THEN "ASSIGN"
            ELSE IF c = ";" THEN "SEMICOLON"
            ELSE IF c = "(" THEN "LEFT_PAREN"
            ELSE IF c = ")" THEN "RIGHT_PAREN"
            ELSE "COMMA"]

\* one token of break_into_tokens, with st.position at a character that is
\* neither NUL nor the start of white space or of a comment
LexToken(src, st) ==
    LET p == st.position
        c == CharAt(src, p)
        n == CharAt(src, p + 1)
        line == st.current_line
    IN IF c = "'" THEN LexCharLiteral(src, st)
       ELSE IF c = "-" /\ IS_DIGIT(n) /\ ~PrevCharIsOperand(src, p)
       THEN LET r == ReadWhile(src, p + 1, <<"-">>, TRUE) IN
            save_token([st EXCEPT !.position = r.position], "NUMBER", r.buffer, line)
       ELSE IF c = "+" /\ IS_DIGIT(n) /\ ~PrevCharIsOperand(src, p)
       THEN LET r == ReadWhile(src, p + 1, <<>>, TRUE) IN
            save_token([st EXCEPT !.position = r.position], "NUMBER", r.buffer, line)
       ELSE IF IS_DIGIT(c)
       THEN LET r == ReadWhile(src, p, <<>>, TRUE) IN
            save_token([st EXCEPT !.position = r.position], "NUMBER", r.buffer, line)
       ELSE IF IS_LETTER(c)
       THEN LET r == ReadWhile(src, p, <<>>, FALSE) IN
            save_token([st EXCEPT !.position = r.position],
                       identify_keyword(r.buffer), r.buffer, line)
       ELSE IF <<c, n>> \in DOMAIN TwoCharOperators
       THEN [save_token(st, TwoCharOperators[<<c, n>>], <<c, n>>, line)
                EXCEPT !.position = p + 2]
       ELSE IF c \in DOMAIN OneCharOperators
       THEN [save_token(st, OneCharOperators[c], <<c>>, line) EXCEPT !.position = p + 1]
       ELSE LET s1 == save_token(st, "UNKNOWN_TOKEN", <<c>>, line) IN
            [s1 EXCEPT !.error_log = record_error(@, line, "Unexpected character", <<c>>),
                       !.position = p + 1]

\* one iteration of the while loop of break_into_tokens
LexIteration(src, st) ==
    LET s1 == skip_spaces_and_comments(src, st) IN
    IF CharAt(src, s1.position) = NUL THEN s1 ELSE LexToken(src, s1)

\* break_into_tokens(source_code) from the lexer state st: the loop, then the
\* END_OF_FILE token
RECURSIVE break_into_tokens(_, _)
break_into_tokens(src, st) ==
    IF CharAt(src, st.position) # NUL
    THEN break_into_tokens(src, LexIteration(src, st))
    ELSE save_token(st, "END_OF_FILE", <<>>, st.current_line)

(***************************************************************************)
(* Symbol table.  symbol_table is a sequence of Symbol records.            *)
(***************************************************************************)
Symbol(name, memory_location) ==
    [name |-> name, is_initialized |-> 0, is_used |-> 0,
     memory_location |-> memory_location, size |-> 4]

\* find_variable, were its loop to start at index 1 of the table
find_variable_from_second(syms, variable_name) ==
    IF \E i \in 2..Len(syms) : syms[i].name = variable_name
    THEN CHOOSE i \in 2..Len(syms) :
             /\ syms[i].name = variable_name
             /\ \A j \in 2..(i - 1) : syms[j].name # variable_name
    ELSE 0

\* the index (from 1) of the first entry named variable_name, 0 for NULL
find_variable(syms, variable_name) ==
    IF \E i \in 1..Len(syms) : syms[i].name = variable_name
    THEN CHOOSE i \in 1..Len(syms) :
             /\ syms[i].name = variable_name
             /\ \A j \in 1..(i - 1) : syms[j].name # variable_name
    ELSE 0

\* add_variable advancing next_memory_location on the duplicate path as well
add_variable_skipping(s, variable_name, line_number) ==
    IF Len(s.syms) >= MAX_SYMBOLS
    THEN [ok |-> FALSE,
          s |-> [s EXCEPT !.errs =
                     record_error(@, line_number, "Too many variables declared", <<>>)]]
    ELSE IF find_variable_(s.syms, variable_name) # 0
    THEN [ok |-> FALSE,
          s |-> [s EXCEPT !.errs =
                     record_error(@, line_number, "Variable is already declared",
                                  variable_name),
                          !.next_memory_location = @ + SLOT_SIZE]]
    ELSE [ok |-> TRUE,
          s |-> [s EXCEPT !.syms = Append(@, Symbol(Truncate(variable_name),
                                                   s.next_memory_location)),
                          !.next_memory_location = @ + SLOT_SIZE]]

\* s carries syms, next_memory_location and errs; the result is [ok, s]
add_variable(s, variable_name, line_number) ==
    IF Len(s.syms) >= MAX_SYMBOLS
    THEN [ok |-> FALSE,
          s |-> [s EXCEPT !.errs =
                     record_error(@, line_number, "Too many variables declared", <<>>)]]
    ELSE IF find_variable_(s.syms, variable_name) # 0
    THEN [ok |-> FALSE,
          s |-> [s EXCEPT !.errs =
                     record_error(@, line_number, "Variable is already declared",
                                  variable_name)]]
    ELSE [ok |-> TRUE,
          s |-> [s EXCEPT !.syms = Append(@, Symbol(Truncate(variable_name),
                                                   s.next_memory_location)),
                          !.next_memory_location = @ + SLOT_SIZE]]

mark_variable_initialized(syms, variable_name) ==
    LET i == find_variable_(syms, variable_name) IN
    IF i # 0 THEN [syms EXCEPT ![i].is_initialized = 1] ELSE syms

mark_variable_used(syms, variable_name) ==
    LET i == find_variable_(syms, variable_name) IN
    IF i # 0 THEN [syms EXCEPT ![i].is_used = 1] ELSE syms

(***************************************************************************)
(* AST.  A node is [node_type, token_info, left_child, right_child, next]; *)
(* NULL is the null pointer.                                               *)
(***************************************************************************)
NULL == [node_type |-> "NULL"]

IsNull(node) == node.node_type = "NULL"

RECURSIVE NodeCount(_)
NodeCount(node) ==
    IF IsNull(node) THEN 0
    ELSE 1 + NodeCount(node.left_child) + NodeCount(node.right_child) + NodeCount(node.next)

\* a parser state is [pos, syms, next_memory_location, errs, allocs, frees];
\* a parse result is [node, s]
Result(node, s) == [node |-> node, s |-> s]

create_tree_node(s, node_type, token_data, left_child, right_child) ==
    Result([node_type |-> node_type, token_info |-> token_data,
            left_child |-> left_child, right_child |-> right_child, next |-> NULL],
           [s EXCEPT !.allocs = @ + 1])

free_program_tree(s, node) == [s EXCEPT !.frees = @ + NodeCount(node)]

ParseError(s, line_number, message, arg) ==
    [s EXCEPT !.errs = record_error(@, line_number, message, arg)]

\* all_tokens[i] with i counted from 0, the last token when i is past the end
TokenAt(i) ==
    IF i < Len(all_tokens) THEN all_tokens[i + 1] ELSE all_tokens[Len(all_tokens)]

peek_next_token(s) == TokenAt(s.pos)

\* the state after get_next_token(); the token returned is peek_next_token(s)
get_next_token(s) ==
    IF s.pos < Len(all_tokens) THEN [s EXCEPT !.pos = @ + 1] ELSE s

expect_token(s, expected_type, expected_text) ==
    IF peek_next_token(s).type # expected_type
    THEN [ok |-> FALSE,
          s |-> ParseError(s, peek_next_token(s).line, "Expected", expected_text)]
    ELSE [ok |-> TRUE, s |-> get_next_token(s)]

(***************************************************************************)
(* Parser: expressions.                                                    *)
(***************************************************************************)
RECURSIVE parse_unary_expression(_)
RECURSIVE parse_primary_expression(_)
RECURSIVE parse_postfix_expression(_)
RECURSIVE parse_multiplicative_expression(_)
RECURSIVE parse_additive_expression(_)
RECURSIVE parse_expression(_)
RECURSIVE MultiplicativeLoop(_, _)
RECURSIVE AdditiveLoop(_, _)

parse_unary_expression(s) ==
    LET current_token == peek_next_token(s) IN
    IF current_token.type \in {"PLUS", "MINUS"}
    THEN LET r == parse_unary_expression_(get_next_token(s)) IN
         IF IsNull(r.node)
         THEN Result(NULL, ParseError(r.s, current_token.line,
                                      "Expected expression after unary operator", <<>>))
         ELSE create_tree_node(r.s, "UNARY_NODE", current_token, r.node, NULL)
    ELSE IF current_token.type \in {"INCREMENT", "DECREMENT"}
    THEN LET r == parse_primary_expression_(get_next_token(s)) IN
         IF IsNull(r.node)
         THEN Result(NULL, ParseError(r.s, current_token.line,
                                      "Expected variable after prefix operator", <<>>))
         ELSE IF r.node.node_type # "VARIABLE_NODE"
         THEN Result(NULL, free_program_tree(
                               ParseError(r.s, current_token.line,
                                          "Prefix operator requires a variable", <<>>),
                               r.node))
         ELSE create_tree_node(r.s, "UNARY_NODE", current_token, r.node, NULL)
    ELSE parse_postfix_expression_(s)

parse_primary_expression(s) ==
    LET current_token == peek_next_token(s) IN
    IF current_token.type = "NUMBER"
    THEN create_tree_node(get_next_token(s), "NUMBER_NODE", current_token, NULL, NULL)
    ELSE IF current_token.type = "CHAR_LITERAL"
    THEN create_tree_node(get_next_token(s), "CHAR_NODE", current_token, NULL, NULL)
    ELSE IF current_token.type = "IDENTIFIER"
    THEN create_tree_node(
             [get_next_token(s) EXCEPT !.syms = mark_variable_used_(@, current_token.text)],
             "VARIABLE_NODE", current_token, NULL, NULL)
    ELSE IF current_token.type = "LEFT_PAREN"
    THEN LET r == parse_expression_(get_next_token(s)) IN
         IF IsNull(r.node) THEN r
         ELSE LET e == expect_token_(r.s, "RIGHT_PAREN", <<")">>) IN
              IF ~e.ok THEN Result(NULL, free_program_tree(e.s, r.node))
              ELSE Result(r.node, e.s)
    ELSE Result(NULL, ParseError(s, current_token.line, "Expected expression", <<>>))

parse_postfix_expression(s) ==
    LET r == parse_primary_expression_(s) IN
    IF IsNull(r.node) THEN r
    ELSE LET next_token == peek_next_token(r.s) IN
         IF next_token.type \in {"INCREMENT", "DECREMENT"}
            /\ r.node.node_type = "VARIABLE_NODE"
         THEN create_tree_node(get_next_token(r.s), "UNARY_NODE", next_token, r.node, NULL)
         ELSE r

\* the while loop of parse_multiplicative_expression
MultiplicativeLoop(left_side, s) ==
    LET operator_token == peek_next_token(s) IN
    IF operator_token.type \in {"MULTIPLY", "DIVIDE"}
    THEN LET r == parse_unary_expression_(get_next_token(s)) IN
         IF IsNull(r.node) THEN Result(NULL, free_program_tree(r.s, left_side))
         ELSE LET n == create_tree_node(r.s, "OPERATION_NODE", operator_token,
                                        left_side, r.node)
              IN MultiplicativeLoop_(n.node, n.s)
    ELSE Result(left_side, s)

parse_multiplicative_expression(s) ==
    LET r == parse_unary_expression_(s) IN
    IF IsNull(r.node) THEN r ELSE MultiplicativeLoop_(r.node, r.s)

\* the while loop of parse_additive_expression, were its right operand a whole
\* additive expression
AdditiveLoop_rightward(left_side, s) ==
    LET operator_token == peek_next_token(s) IN
    IF operator_token.type \in {"PLUS", "MINUS"}
    THEN LET r == parse_additive_expression_(get_next_token(s)) IN
         IF IsNull(r.node) THEN Result(NULL, free_program_tree(r.s, left_side))
         ELSE create_tree_node(r.s, "OPERATION_NODE", operator_token, left_side, r.node)
    ELSE Result(left_side, s)

\* the while loop of parse_additive_expression
AdditiveLoop(left_side, s) ==
    LET operator_token == peek_next_token(s) IN
    IF operator_token.type \in {"PLUS", "MINUS"}
    THEN LET r == parse_multiplicative_expression_(get_next_token(s)) IN
         IF IsNull(r.node) THEN Result(NULL, free_program_tree(r.s, left_side))
         ELSE LET n == create_tree_node(r.s, "OPERATION_NODE", operator_token,
                                        left_side, r.node)
              IN AdditiveLoop_(n.node, n.s)
    ELSE Result(left_side, s)

parse_additive_expression(s) ==
    LET r == parse_multiplicative_expression_(s) IN
    IF IsNull(r.node) THEN r ELSE AdditiveLoop_(r.node, r.s)

parse_expression(s) == parse_additive_expression_(s)

(***************************************************************************)
(* Parser: statements.                                                     *)
(***************************************************************************)
CompoundAssignTypes == {"PLUS_ASSIGN", "MINUS_ASSIGN", "MULTIPLY_ASSIGN", "DIVIDE_ASSIGN"}

MarkInitialized(s, name) == [s EXCEPT !.syms = mark_variable_initialized_(@, name)]

MarkUsed(s, name) == [s EXCEPT !.syms = mark_variable_used_(@, name)]

RECURSIVE parse_assignment(_)
parse_assignment(s) ==
    LET variable_token == peek_next_token(s)
        s1 == get_next_token(s)
        operator_token == peek_next_token(s1)
    IN
    IF variable_token.type # "IDENTIFIER"
    THEN Result(NULL, ParseError(s1, variable_token.line, "Expected variable name", <<>>))
    ELSE IF operator_token.type \in CompoundAssignTypes
    THEN LET r == parse_expression_(get_next_token(s1)) IN
         IF IsNull(r.node) THEN r
         ELSE LET v == create_tree_node(MarkInitialized(r.s, variable_token.text),
                                        "VARIABLE_NODE", variable_token, NULL, NULL)
              IN create_tree_node(v.s, "COMPOUND_ASSIGN_NODE", operator_token,
                                  v.node, r.node)
    ELSE LET e == expect_token_(s1, "ASSIGN", <<"=">>) IN
         IF ~e.ok THEN Result(NULL, e.s)
         ELSE IF peek_next_token(e.s).type = "IDENTIFIER"
                 /\ TokenAt(e.s.pos + 1).type = "ASSIGN"
         THEN LET nested == parse_assignment_(e.s) IN
              IF IsNull(nested.node) THEN nested
              ELSE create_tree_node(MarkInitialized(nested.s, variable_token.text),
                                    "ASSIGNMENT_NODE", variable_token, nested.node, NULL)
         ELSE LET r == parse_expression_(e.s) IN
              IF IsNull(r.node) THEN r
              ELSE create_tree_node(MarkInitialized(r.s, variable_token.text),
                                    "ASSIGNMENT_NODE", variable_token, r.node, NULL)

\* last_declaration->next = decl_node, on the list that starts at declaration_list
RECURSIVE LinkLast(_, _)
LinkLast(list, node) ==
    IF IsNull(list) THEN node
    ELSE [list EXCEPT !.next = LinkLast(list.next, node)]

\* the while (1) loop of parse_declaration; a return from inside the loop
\* leaves declaration_list unfreed
RECURSIVE DeclarationLoop(_, _, _)
DeclarationLoop(s, type_token, declaration_list) ==
    LET variable_token == peek_next_token(s)
        s1 == get_next_token(s)
    IN
    IF variable_token.type # "IDENTIFIER"
    THEN Result(NULL, ParseError(s1, variable_token.line, "Expected variable name", <<>>))
    ELSE LET a == add_variable_(s1, variable_token.text, variable_token.line) IN
         IF ~a.ok THEN Result(NULL, a.s)
         ELSE LET has_init == peek_next_token(a.s).type = "ASSIGN"
                  r == parse_expression_(get_next_token(a.s))
              IN
              IF has_init /\ IsNull(r.node)
              THEN Result(NULL, ParseError(r.s, variable_token.line,
                                           "Expected expression after '='", <<>>))
              ELSE LET assignment_node ==
                           IF has_init
                           THEN create_tree_node(
                                    MarkInitialized(r.s, variable_token.text),
                                    "ASSIGNMENT_NODE", variable_token, r.node, NULL)
                           ELSE create_tree_node(a.s, "VARIABLE_NODE", variable_token,
                                                 NULL, NULL)
                       decl_node == create_tree_node(assignment_node.s, "DECLARATION_NODE",
                                                     type_token, assignment_node.node, NULL)
                       list == LinkLast(declaration_list, decl_node.node)
                   IN
                   IF peek_next_token(decl_node.s).type = "COMMA"
                   THEN DeclarationLoop_(get_next_token(decl_node.s), type_token, list)
                   ELSE LET e == expect_token_(decl_node.s, "SEMICOLON", <<";">>) IN
                        IF ~e.ok THEN Result(NULL, free_program_tree(e.s, list))
                        ELSE Result(list, e.s)

parse_declaration(s) ==
    LET type_token == peek_next_token(s) IN
    IF type_token.type \notin {"INT_KEYWORD", "CHAR_KEYWORD"}
    THEN Result(NULL, ParseError(get_next_token(s), type_token.line,
                                 "Expected 'int' or 'char'", <<>>))
    ELSE DeclarationLoop_(get_next_token(s), type_token, NULL)

\* while (peek != SEMICOLON && peek != END_OF_FILE) get_next_token();
\* if (peek == SEMICOLON) get_next_token();
RECURSIVE SkipStatement(_)
SkipStatement(s) ==
    IF peek_next_token(s).type \notin {"SEMICOLON", "END_OF_FILE"}
       /\ s.pos < Len(all_tokens)
    THEN SkipStatement_(get_next_token(s))
    ELSE IF peek_next_token(s).type = "SEMICOLON" THEN get_next_token(s) ELSE s

\* expr; as the tail of a statement: the expression node, or NULL with the
\* expression freed when the semicolon is missing
ExpectSemicolon(r) ==
    LET e == expect_token_(r.s, "SEMICOLON", <<";">>) IN
    IF ~e.ok THEN Result(NULL, free_program_tree(e.s, r.node)) ELSE Result(r.node, e.s)

\* the ++/-- statement forms of parse_statement, the two tokens already read
IncrementStatement(s, op_token, var_token) ==
    LET v == create_tree_node(MarkInitialized(MarkUsed(s, var_token.text), var_token.text),
                              "VARIABLE_NODE", var_token, NULL, NULL)
        n == create_tree_node(v.s, "UNARY_NODE", op_token, v.node, NULL)
    IN ExpectSemicolon_(n)

\* the tail of parse_statement, from the second parse_expression() on
StatementFallback(s) ==
    LET r == parse_expression_(s) IN
    IF ~IsNull(r.node) THEN ExpectSemicolon_(r)
    ELSE LET error_token == peek_next_token(r.s) IN
         IF error_token.type # "END_OF_FILE"
         THEN Result(NULL, SkipStatement_(
                               ParseError(r.s, error_token.line,
                                          "Invalid statement starting with",
                                          error_token.text)))
         ELSE Result(NULL, r.s)

parse_statement(s) ==
    LET first == peek_next_token(s)
        lookahead == TokenAt(s.pos + 1)
    IN
    IF first.type = "SEMICOLON" THEN Result(NULL, get_next_token(s))
    ELSE IF first.type \in {"INT_KEYWORD", "CHAR_KEYWORD"} THEN parse_declaration_(s)
    ELSE IF first.type \in {"INCREMENT", "DECREMENT"}
    THEN LET s1 == get_next_token(s) IN
         IF peek_next_token(s1).type # "IDENTIFIER"
         THEN Result(NULL, SkipStatement_(
                               ParseError(s1, first.line,
                                          "Expected variable after prefix operator", <<>>)))
         ELSE IncrementStatement_(get_next_token(s1), first, peek_next_token(s1))
    ELSE IF first.type = "IDENTIFIER" /\ lookahead.type \in {"ASSIGN"} \cup CompoundAssignTypes
    THEN LET r == parse_assignment_(s) IN
         IF ~IsNull(r.node) THEN ExpectSemicolon_(r) ELSE r
    ELSE IF first.type = "IDENTIFIER" /\ lookahead.type \in {"INCREMENT", "DECREMENT"}
    THEN IncrementStatement_(get_next_token(get_next_token(s)), lookahead, first)
    ELSE IF first.type = "IDENTIFIER"
    THEN LET r == parse_expression_(s) IN
         IF ~IsNull(r.node) THEN ExpectSemicolon_(r) ELSE StatementFallback_(r.s)
    ELSE StatementFallback_(s)

\* current_statement->next = statement, current_statement being the k-th
\* node of the list that starts at root
RECURSIVE SetNextAt(_, _, _)
SetNextAt(root, k, statement) ==
    IF k <= 1 THEN [root EXCEPT !.next = statement]
    ELSE [root EXCEPT !.next = SetNextAt(root.next, k - 1, statement)]

\* parse_program from parser state s, program_start being the list built so
\* far and current_statement the index, along next, of its last statement
RECURSIVE parse_program(_, _, _)
parse_program(s, program_start_, current_statement) ==
    IF peek_next_token(s).type = "END_OF_FILE" THEN Result(program_start_, s)
    ELSE LET r == parse_statement_(s) IN
         IF IsNull(r.node) THEN parse_program_(r.s, program_start_, current_statement)
         ELSE IF IsNull(program_start_) THEN parse_program_(r.s, r.node, 1)
         ELSE parse_program_(r.s, SetNextAt(program_start_, current_statement, r.node),
                            current_statement + 1)

(***************************************************************************)
(* Semantic checker.  A checker state is [syms, errs, warns].              *)
(***************************************************************************)
Warning(kind, name, line_number) == [kind |-> kind, name |-> name, line |-> line_number]

\* the lookup shared by the cases of check_program_semantics: an undeclared
\* name is an error; warn says whether an uninitialized one is reported
CheckReference(cs, name, line_number, warn) ==
    LET i == find_variable_(cs.syms, name) IN
    IF i = 0
    THEN [cs EXCEPT !.errs = record_error(@, line_number, "Variable was not declared", name)]
    ELSE IF warn /\ cs.syms[i].is_initialized = 0
    THEN [cs EXCEPT !.warns = Append(@, Warning("might not have a value", name, line_number))]
    ELSE cs

RECURSIVE check_program_semantics(_, _)
check_program_semantics(node, cs) ==
    IF IsNull(node) THEN cs
    ELSE LET t == node.node_type
             line == node.token_info.line
             left_is_variable ==
                 ~IsNull(node.left_child) /\ node.left_child.node_type = "VARIABLE_NODE"
             c1 ==
                 IF t = "VARIABLE_NODE"
                 THEN CheckReference_(cs, node.token_info.text, line, TRUE)
                 ELSE IF t = "UNARY_NODE"
                 THEN IF left_is_variable
                      THEN LET c == CheckReference_(cs, node.left_child.token_info.text,
                                                   line, TRUE)
                           IN [c EXCEPT !.syms = mark_variable_used_(
                                                     @, node.left_child.token_info.text)]
                      ELSE cs
                 ELSE IF t = "ASSIGNMENT_NODE"
                 THEN check_program_semantics_(
                          node.left_child,
                          CheckReference_(cs, node.token_info.text, line, FALSE))
                 ELSE IF t = "COMPOUND_ASSIGN_NODE"
                 THEN check_program_semantics_(
                          node.right_child,
                          IF left_is_variable
                          THEN LET c == CheckReference_(cs, node.left_child.token_info.text,
                                                       line, FALSE)
                               IN [c EXCEPT !.syms = mark_variable_used_(
                                                         @, node.left_child.token_info.text)]
                          ELSE cs)
                 ELSE IF t = "OPERATION_NODE"
                 THEN check_program_semantics_(
                          node.right_child,
                          check_program_semantics_(node.left_child, cs))
                 ELSE IF t = "DECLARATION_NODE"
                 THEN check_program_semantics_(node.left_child, cs)
                 ELSE cs
         IN check_program_semantics_(node.next, c1)

RECURSIVE UnusedFrom(_, _)
UnusedFrom(syms, i) ==
    IF i > Len(syms) THEN <<>>
    ELSE (IF syms[i].is_used = 0
          THEN <<Warning("was declared but never used", syms[i].name, 0)>>
          ELSE <<>>) \o UnusedFrom(syms, i + 1)

\* the warnings check_for_unused_variables writes, in table order
check_for_unused_variables(syms) == UnusedFrom(syms, 1)

(***************************************************************************)
(* Register pool.                                                          *)
(***************************************************************************)
\* register_names[i] of setup_registers
available_registers(i) == <<"r">> \o IntToText(i)

\* no caller keeps a register name
NoneHeld == [i \in 0..(REGISTER_COUNT - 1) |-> 0]

\* clear_registers, and the used_registers that setup_registers leaves
clear_registers == [i \in 0..(REGISTER_COUNT - 1) |-> IF i = 0 THEN 1 ELSE 0]

\* get_register(), were its search to start at index 0
get_register_from_zero(used) ==
    IF \E i \in 0..(REGISTER_COUNT - 1) : used[i] = 0
    THEN LET i == CHOOSE k \in 0..(REGISTER_COUNT - 1) :
                      used[k] = 0 /\ \A j \in 0..(k - 1) : used[j] # 0
         IN [reg |-> available_registers(i), used |-> [used EXCEPT ![i] = 1]]
    ELSE [reg |-> <<"r", "3", "1">>, used |-> used]

\* get_register(), were an exhausted pool to hand out its first register again
get_register_wrapping(used) ==
    IF \E i \in 1..(REGISTER_COUNT - 1) : used[i] = 0
    THEN LET i == CHOOSE k \in 1..(REGISTER_COUNT - 1) :
                      used[k] = 0 /\ \A j \in 1..(k - 1) : used[j] # 0
         IN [reg |-> available_registers(i), used |-> [used EXCEPT ![i] = 1]]
    ELSE [reg |-> <<"r", "1">>, used |-> clear_registers]

\* get_register(), were it to leave the register it returns unmarked
get_register_unmarked(used) ==
    IF \E i \in 1..(REGISTER_COUNT - 1) : used[i] = 0
    THEN LET i == CHOOSE k \in 1..(REGISTER_COUNT - 1) :
                      used[k] = 0 /\ \A j \in 1..(k - 1) : used[j] # 0
         IN [reg |-> available_registers(i), used |-> used]
    ELSE [reg |-> <<"r", "3", "1">>, used |-> used]

\* get_register(): the name returned and the pool after the call
get_register(used) ==
    IF \E i \in 1..(REGISTER_COUNT - 1) : used[i] = 0
    THEN LET i == CHOOSE k \in 1..(REGISTER_COUNT - 1) :
                      used[k] = 0 /\ \A j \in 1..(k - 1) : used[j] # 0
         IN [reg |-> available_registers(i), used |-> [used EXCEPT ![i] = 1]]
    ELSE [reg |-> <<"r", "3", "1">>, used |-> used]

release_register_by_name(used, reg_name) ==
    IF \E i \in 0..(REGISTER_COUNT - 1) : available_registers(i) = reg_name
    THEN LET i == CHOOSE k \in 0..(REGISTER_COUNT - 1) : available_registers(k) = reg_name
         IN [used EXCEPT ![i] = 0]
    ELSE used

get_register_number(register_name) ==
    IF Len(register_name) > 1 /\ register_name[1] \in {"r", "R"}
    THEN LET reg_num == atoi_(Tail(register_name)) IN
         IF reg_num >= 0 /\ reg_num <= 31 THEN reg_num ELSE 0
    ELSE 0

(***************************************************************************)
(* Instruction encoder.  An unsigned 32-bit word is the function from the  *)
(* bit positions 0..31 (bit 0 the least significant) to its bits.          *)
(***************************************************************************)
WORD_BITS == 32

BitPositions == 0..(WORD_BITS - 1)

PowerOfTwo(k) == 2 ^ k

\* 1 << k for the bit positions below the sign bit
Pow2 == [k \in 0..(WORD_BITS - 2) |-> PowerOfTwo(k)]

\* (unsigned int)x for an int x, in two's complement
ToWord(x) ==
    [i \in BitPositions |->
        IF x >= 0
        THEN IF i = WORD_BITS - 1 THEN 0 ELSE (x \div Pow2[i]) % 2
        ELSE IF i = WORD_BITS - 1 THEN 1 ELSE 1 - (((0 - x - 1) \div Pow2[i]) % 2)]

ZeroWord == [i \in BitPositions |-> 0]

\* w << k
ShiftLeft(w, k) == [i \in BitPositions |-> IF i >= k THEN w[i - k] ELSE 0]

\* a | b
BitOr(a, b) == [i \in BitPositions |-> IF a[i] = 1 \/ b[i] = 1 THEN 1 ELSE 0]

\* the immediate without the mask
Low16_unmasked(w) == w

\* w & 0xFFFF
Low16(w) == [i \in BitPositions |-> IF i < 16 THEN w[i] ELSE 0]

\* the table, were the function code of daddu zero
supported_instructions_zero_function ==
    << <<"daddiu", 25, 1, 0, 0>>,
       <<"lb", 32, 1, 0, 0>>,
       <<"sb", 40, 1, 0, 0>>,
       <<"daddu", 0, 0, 0, 0>>,
       <<"dsubu", 0, 0, 0, 47>>,
       <<"dmul", 0, 0, 2, 28>>,
       <<"dmulu", 0, 0, 2, 29>>,
       <<"ddiv", 0, 0, 2, 30>>,
       <<"ddivu", 0, 0, 2, 31>> >>

\* supported_instructions[]: name, opcode_value, instruction_format, sub_code,
\* function_code
supported_instructions ==
    << <<"daddiu", 25, 1, 0, 0>>,
       <<"lb", 32, 1, 0, 0>>,
       <<"sb", 40, 1, 0, 0>>,
       <<"daddu", 0, 0, 0, 45>>,
       <<"dsubu", 0, 0, 0, 47>>,
       <<"dmul", 0, 0, 2, 28>>,
       <<"dmulu", 0, 0, 2, 29>>,
       <<"ddiv", 0, 0, 2, 30>>,
       <<"ddivu", 0, 0, 2, 31>> >>

\* the index from 1 of the entry, 0 where the C function returns -1
find_instruction(instruction_name) ==
    IF \E i \in 1..Len(supported_instructions) :
           supported_instructions[i][1] = instruction_name
    THEN CHOOSE i \in 1..Len(supported_instructions) :
             supported_instructions[i][1] = instruction_name
    ELSE 0

create_instruction_code(instruction_name, source_reg, target_reg, dest_reg, immediate_value) ==
    LET instruction_index == find_instruction_(instruction_name) IN
    IF instruction_index = 0 THEN ZeroWord
    ELSE LET inst == supported_instructions[instruction_index]
             high == BitOr(BitOr(ShiftLeft(ToWord(inst[2]), 26),
                                 ShiftLeft(ToWord(source_reg), 21)),
                           ShiftLeft(ToWord(target_reg), 16))
         IN IF inst[3] = 1
            THEN BitOr(high, Low16(ToWord(immediate_value)))
            ELSE BitOr(BitOr(high, ShiftLeft(ToWord(dest_reg), 11)), ToWord(inst[5]))

\* the digits written from bit 0 up
display_binary_code_lsb_first(value) ==
    [j \in 1..(WORD_BITS + WORD_BITS \div 4 - 1) |->
        IF j % 5 = 0 THEN " "
        ELSE Digits[value[4 * ((j - 1) \div 5) + ((j - 1) % 5)] + 1]]

\* the characters display_binary_code writes for value: (value >> i) & 1 for
\* i from 31 down to 0, a space after every fourth digit but the last
display_binary_code(value) ==
    [j \in 1..(WORD_BITS + WORD_BITS \div 4 - 1) |->
        IF j % 5 = 0 THEN " "
        ELSE Digits[value[WORD_BITS - 1 - (4 * ((j - 1) \div 5) + ((j - 1) % 5))] + 1]]

(***************************************************************************)
(* Code generator.  A generator state is [used, out]: the register pool    *)
(* and the lines written so far.  An instruction is one record holding the *)
(* assembly line (mnemonic; register operands in printed order; the        *)
(* immediate as printed; the memory offset, -1 when there is none) and the *)
(* comment line produce_machine_code writes under it (bits, empty when the *)
(* word is 0).                                                             *)
(***************************************************************************)
R0 == <<"r", "0">>

OutLine(kind, mnemonic, regs, imm, offset, word) ==
    [kind |-> kind, mnemonic |-> mnemonic, regs |-> regs, imm |-> imm,
     offset |-> offset, word |-> word,
     bits |-> IF word # ZeroWord THEN display_binary_code(word) ELSE <<>>]

\* fprintf of one assembly line followed by produce_machine_code
Emit(g, mnemonic, regs, imm, offset, source_reg, target_reg, dest_reg, immediate_value) ==
    [g EXCEPT !.out = Append(@, OutLine("instruction", mnemonic, regs, imm, offset,
                                        create_instruction_code_(mnemonic, source_reg,
                                            target_reg, dest_reg, immediate_value)))]

\* lb reg, offset(r0)  /  sb reg, offset(r0)
EmitMemory(g, mnemonic, reg, memory_location) ==
    Emit(g, mnemonic, <<reg, R0>>, <<>>, memory_location,
         0, get_register_number_(reg), -1, memory_location)

\* daddiu reg, reg, 1  /  daddiu reg, reg, -1 for ++ and --, nothing otherwise
EmitStep(g, operator_text, reg) ==
    IF operator_text = <<"+", "+">>
    THEN Emit(g, "daddiu", <<reg, reg>>, <<"1">>, -1,
              get_register_number_(reg), get_register_number_(reg), -1, 1)
    ELSE IF operator_text = <<"-", "-">>
    THEN Emit(g, "daddiu", <<reg, reg>>, <<"-", "1">>, -1,
              get_register_number_(reg), get_register_number_(reg), -1, -1)
    ELSE g

\* dsubu reg, r0, reg
EmitNegate(g, reg) ==
    Emit(g, "dsubu", <<reg, R0, reg>>, <<>>, -1,
         0, get_register_number_(reg), get_register_number_(reg), -1)

\* the mnemonic the code generator uses for a binary or compound operator
OperatorMnemonic(c) ==
    IF c = "+" THEN "daddu"
    ELSE IF c = "-" THEN "dsubu"
    ELSE IF c = "*" THEN "dmulu"
    ELSE IF c = "/" THEN "ddivu"
    ELSE "none"

\* <op> dest, left, right
EmitOperation(g, c, dest, left, right) ==
    IF OperatorMnemonic(c) = "none" THEN g
    ELSE Emit(g, OperatorMnemonic(c), <<dest, left, right>>, <<>>, -1,
              get_register_number_(left), get_register_number_(right),
              get_register_number_(dest), -1)

Acquire(g) ==
    LET a == get_register_(g.used) IN [reg |-> a.reg, g |-> [g EXCEPT !.used = a.used]]

Release(g, reg) == [g EXCEPT !.used = release_register_by_name_(@, reg)]

RECURSIVE generate_expression_code(_, _, _)
generate_expression_code(node, g, result_register) ==
    IF IsNull(node) THEN g
    ELSE LET t == node.node_type
             text == node.token_info.text
         IN
         IF t \in {"NUMBER_NODE", "CHAR_NODE"}
         THEN Emit(g, "daddiu", <<result_register, R0>>, text, -1,
                   0, get_register_number_(result_register), -1, atoi_(text))
         ELSE IF t = "VARIABLE_NODE"
         THEN LET i == find_variable_(symbol_table, text) IN
              IF i # 0
              THEN EmitMemory(g, "lb", result_register, symbol_table[i].memory_location)
              ELSE g
         ELSE IF t = "UNARY_NODE" /\ text \in {<<"+">>, <<"-">>}
         THEN LET g1 == generate_expression_code_(node.left_child, g, result_register) IN
              IF text = <<"-">> THEN EmitNegate(g1, result_register) ELSE g1
         ELSE IF t = "UNARY_NODE"
         THEN IF ~IsNull(node.left_child) /\ node.left_child.node_type = "VARIABLE_NODE"
              THEN LET i == find_variable_(symbol_table, node.left_child.token_info.text) IN
                   IF i # 0
                   THEN LET loc == symbol_table[i].memory_location
                            a == Acquire(g)
                            g1 == EmitMemory(a.g, "lb", result_register, loc)
                            g2 == EmitMemory(g1, "lb", a.reg, loc)
                            g3 == EmitStep(g2, text, a.reg)
                            g4 == EmitMemory(g3, "sb", a.reg, loc)
                        IN Release(g4, a.reg)
                   ELSE g
              ELSE g
         ELSE IF t = "OPERATION_NODE"
         THEN LET l == Acquire(g)
                  r == Acquire(l.g)
                  g1 == generate_expression_code_(node.left_child, r.g, l.reg)
                  g2 == generate_expression_code_(node.right_child, g1, r.reg)
                  g3 == EmitOperation(g2, IF Len(text) = 1 THEN text[1] ELSE "none",
                                      result_register, l.reg, r.reg)
              IN Release(Release(g3, l.reg), r.reg)
         ELSE g

generate_unary_operation_code(node, g) ==
    IF IsNull(node) \/ IsNull(node.left_child) THEN g
    ELSE IF node.left_child.node_type = "VARIABLE_NODE"
    THEN LET i == find_variable_(symbol_table, node.left_child.token_info.text) IN
         IF i = 0 THEN g
         ELSE LET loc == symbol_table[i].memory_location
                  a == Acquire(g)
                  g1 == EmitMemory(a.g, "lb", a.reg, loc)
                  g2 == IF node.token_info.text = <<"-">>
                        THEN EmitNegate(g1, a.reg)
                        ELSE EmitStep(g1, node.token_info.text, a.reg)
                  g3 == EmitMemory(g2, "sb", a.reg, loc)
              IN Release(g3, a.reg)
    ELSE g

generate_compound_assignment_code(variable_name, expression, operator, g) ==
    LET i == find_variable_(symbol_table, variable_name) IN
    IF i = 0 THEN g
    ELSE LET loc == symbol_table[i].memory_location
             result_reg == Acquire(g)
             temp_reg == Acquire(result_reg.g)
             g1 == EmitMemory(temp_reg.g, "lb", temp_reg.reg, loc)
             g2 == generate_expression_code_(expression, g1, result_reg.reg)
             g3 == IF Len(operator) = 2 /\ operator[2] = "="
                   THEN EmitOperation(g2, operator[1], temp_reg.reg, temp_reg.reg,
                                      result_reg.reg)
                   ELSE g2
             g4 == EmitMemory(g3, "sb", temp_reg.reg, loc)
         IN Release(Release(g4, result_reg.reg), temp_reg.reg)

generate_assignment_code(variable_name, expression, g) ==
    LET i == find_variable_(symbol_table, variable_name) IN
    IF i = 0
    THEN [g EXCEPT !.out = Append(@, OutLine("comment", "error: variable not found",
                                             <<>>, variable_name, -1, ZeroWord))]
    ELSE LET a == Acquire(g)
             g1 == generate_expression_code_(expression, a.g, a.reg)
             g2 == EmitMemory(g1, "sb", a.reg, symbol_table[i].memory_location)
         IN Release(g2, a.reg)

\* the first loop of generate_assembly_code: sb r0, offset(r0) for each
\* declaration without an initializer
RECURSIVE ZeroInitPass(_, _)
ZeroInitPass(current, g) ==
    IF IsNull(current) THEN g
    ELSE LET i == IF current.node_type = "DECLARATION_NODE"
                     /\ ~IsNull(current.left_child)
                     /\ current.left_child.node_type = "VARIABLE_NODE"
                  THEN find_variable_(symbol_table, current.left_child.token_info.text)
                  ELSE 0
         IN ZeroInitPass_(current.next,
                IF i # 0
                THEN Emit(g, "sb", <<R0, R0>>, <<>>, symbol_table[i].memory_location,
                          0, 0, -1, symbol_table[i].memory_location)
                ELSE g)

\* the second loop of generate_assembly_code
RECURSIVE StatementPass(_, _)
StatementPass(current, g) ==
    IF IsNull(current) THEN g
    ELSE LET t == current.node_type
             l == current.left_child
             g1 == IF t = "DECLARATION_NODE"
                   THEN IF ~IsNull(l) /\ l.node_type = "ASSIGNMENT_NODE"
                        THEN generate_assignment_code_(l.token_info.text, l.left_child, g)
                        ELSE g
                   ELSE IF t = "ASSIGNMENT_NODE"
                   THEN generate_assignment_code_(current.token_info.text, l, g)
                   ELSE IF t = "COMPOUND_ASSIGN_NODE"
                   THEN IF ~IsNull(l) /\ l.node_type = "VARIABLE_NODE"
                        THEN generate_compound_assignment_code_(
                                 l.token_info.text, current.right_child,
                                 current.token_info.text, g)
                        ELSE g
                   ELSE IF t = "UNARY_NODE"
                   THEN generate_unary_operation_code_(current, g)
                   ELSE g
         IN StatementPass_(current.next, g1)

\* generate_assembly_code(node, output): emitted is code_section_emitted on
\* entry; the result is the generator state on return
generate_assembly_code(node, g, emitted) ==
    IF IsNull(node) THEN g
    ELSE LET g0 == IF emitted = 0
                   THEN [g EXCEPT !.out = Append(@, OutLine("directive", ".code", <<>>,
                                                            <<>>, -1, ZeroWord))]
                   ELSE g
         IN StatementPass_(node, ZeroInitPass_(node, g0))

(***************************************************************************)
(* Inputs.  A source string is a concatenation of at most MaxStmts pieces  *)
(* of program text.                                                        *)
(***************************************************************************)
MaxStmts == 3
MaxCalls == 2

\* int a;\n  int b=a;\n  a=1;  a++;  int a,b;  b+=a*2;  @  a=b=2;  int a\n
Pieces ==
    << <<"i", "n", "t", " ", "a", ";", "\n">>,
       <<"i", "n", "t", " ", "b", "=", "a", ";", "\n">>,
       <<"a", "=", "1", ";">>,
       <<"a", "+", "+", ";">>,
       <<"i", "n", "t", " ", "a", ",", "b", ";">>,
       <<"b", "+", "=", "a", "*", "2", ";">>,
       <<"@">>,
       <<"a", "=", "b", "=", "2", ";">>,
       <<"i", "n", "t", " ", "a", "\n">> >>

RECURSIVE Concat(_, _)
Concat(f, i) == IF i > Len(f) THEN <<>> ELSE Pieces[f[i]] \o Concat(f, i + 1)

Sources ==
    UNION {{Concat(f, 1) : f \in [1..n -> 1..Len(Pieces)]} : n \in 0..MaxStmts}

(***************************************************************************)
(* compile_program as a state machine.  pc is "idle" outside the call,     *)
(* then "lex" (break_into_tokens), "parse" (the loop of parse_program),    *)
(* "check" and "generate".                                                 *)
(***************************************************************************)
LexState == [position |-> position, current_line |-> current_line,
             all_tokens |-> all_tokens, error_log |-> error_log]

ParserState == [pos |-> current_token_position, syms |-> symbol_table,
                next_memory_location |-> next_memory_location, errs |-> error_log,
                allocs |-> heap.allocs, frees |-> heap.frees]

\* a phase that has run, with error_count and the tree as it left them
PhaseDone(phase, errs, tree) ==
    [phase |-> phase, errors |-> Len(errs), tree |-> ~IsNull(tree)]

\* what one invocation leaves behind: the errors display_errors prints, the
\* warnings on stderr, and the output file when this invocation wrote it
Report(result, errs, warns, out) ==
    [result |-> result, errors |-> errs, warnings |-> warns, output |-> out]

\* the return statements of compile_program
Return(result, errs, warns, out) ==
    /\ pc' = "idle"
    /\ history' = Append(history, Report(result, errs, warns, out))

\* the tests of compile_program that end the invocation after a phase
LexicalErrorsFound_several(errs) == Len(errs) > 1

LexicalErrorsFound(errs) == Len(errs) # 0

SyntaxErrorsFound_errors_only(errs, tree) == Len(errs) # 0

SyntaxErrorsFound(errs, tree) == Len(errs) # 0 \/ IsNull(tree)

SemanticErrorsFound(errs) == Len(errs) # 0

Init ==
    /\ source_code \in Sources
    /\ pc = "idle"
    /\ position = 0
    /\ current_line = 1
    /\ all_tokens = <<>>
    /\ current_token_position = 0
    /\ symbol_table = <<>>
    /\ next_memory_location = 0
    /\ error_log = <<>>
    /\ warnings = <<>>
    /\ program_start = NULL
    /\ heap = [allocs |-> 0, frees |-> 0]
    /\ used_registers = [i \in 0..(REGISTER_COUNT - 1) |-> 0]
    /\ code_section_emitted = 0
    /\ output = <<>>
    /\ phase_log = <<>>
    /\ history = <<>>
    /\ arguments = <<>>
    /\ held = NoneHeld
    /\ returned = <<>>

\* the call and the resets at the top of compile_program
CompileStart ==
    /\ pc = "idle"
    /\ Len(history) < MaxCalls
    /\ pc' = "lex"
    /\ all_tokens' = <<>>
    /\ current_token_position' = 0
    /\ symbol_table' = <<>>
    /\ next_memory_location' = 0
    /\ error_log' = <<>>
    /\ used_registers' = clear_registers
    /\ position' = 0
    /\ current_line' = 1
    /\ warnings' = <<>>
    /\ program_start' = NULL
    /\ heap' = [allocs |-> 0, frees |-> 0]
    /\ phase_log' = <<>>
    /\ UNCHANGED called
    /\ UNCHANGED <<source_code, code_section_emitted, output, history>>

\* break_into_tokens and the test that follows the call
Lex ==
    /\ pc = "lex"
    /\ LET st == break_into_tokens(source_code, LexState) IN
         /\ position' = st.position
         /\ current_line' = st.current_line
         /\ all_tokens' = st.all_tokens
         /\ error_log' = st.error_log
    /\ phase_log' = Append(phase_log, PhaseDone("lex", error_log', NULL))
    /\ IF LexicalErrorsFound(error_log')
       THEN Return("lexical errors found", error_log', warnings, <<>>)
       ELSE pc' = "parse" /\ history' = history
    /\ UNCHANGED called
    /\ UNCHANGED <<source_code, current_token_position, symbol_table,
                   next_memory_location, warnings, program_start,
                   heap, used_registers, code_section_emitted, output>>

\* parse_program and the test that follows the call
Parse ==
    /\ pc = "parse"
    /\ \E r \in {parse_program_(ParserState, NULL, 0)} :
         /\ current_token_position' = r.s.pos
         /\ symbol_table' = r.s.syms
         /\ next_memory_location' = r.s.next_memory_location
         /\ error_log' = r.s.errs
         /\ program_start' = r.node
         /\ phase_log' = Append(phase_log, PhaseDone("parse", r.s.errs, r.node))
         /\ IF SyntaxErrorsFound(r.s.errs, r.node)
            THEN /\ heap' = [allocs |-> r.s.allocs,
                             frees |-> r.s.frees + NodeCount(r.node)]
                 /\ Return("syntax errors found", r.s.errs, warnings, <<>>)
            ELSE /\ heap' = [allocs |-> r.s.allocs, frees |-> r.s.frees]
                 /\ pc' = "check"
                 /\ history' = history
    /\ UNCHANGED called
    /\ UNCHANGED <<source_code, position, current_line, all_tokens, warnings,
                   used_registers, code_section_emitted, output>>

\* check_program_semantics, check_for_unused_variables and the test that follows
Check ==
    /\ pc = "check"
    /\ \E cs \in {check_program_semantics_(
                      program_start,
                      [syms |-> symbol_table, errs |-> error_log, warns |-> warnings])} :
          /\ symbol_table' = cs.syms
          /\ error_log' = cs.errs
          /\ warnings' = cs.warns \o check_for_unused_variables_(cs.syms)
    /\ phase_log' = Append(phase_log, PhaseDone("check", error_log', program_start))
    /\ IF SemanticErrorsFound(error_log')
       THEN /\ heap' = [heap EXCEPT !.frees = @ + NodeCount(program_start)]
            /\ Return("semantic errors found", error_log', warnings', <<>>)
       ELSE pc' = "generate" /\ UNCHANGED <<heap, history>>
    /\ UNCHANGED called
    /\ UNCHANGED <<source_code, position, current_line, all_tokens,
                   current_token_position, next_memory_location, program_start,
                   used_registers, code_section_emitted, output>>

\* fopen(output_filename, "w") returns NULL
OpenFails ==
    /\ pc = "generate"
    /\ heap' = [heap EXCEPT !.frees = @ + NodeCount(program_start)]
    /\ Return("cannot create output file", error_log, warnings, <<>>)
    /\ UNCHANGED called
    /\ UNCHANGED <<source_code, position, current_line, all_tokens,
                   current_token_position, symbol_table, next_memory_location, error_log,
                   warnings, program_start, used_registers,
                   code_section_emitted, output, phase_log>>

\* fopen succeeds: setup_registers, generate_assembly_code, fclose and the
\* final return
Generate ==
    /\ pc = "generate"
    /\ \E g \in {generate_assembly_code_(program_start,
                                         [used |-> clear_registers, out |-> <<>>],
                                         code_section_emitted)} :
          /\ used_registers' = g.used
          /\ output' = g.out
    /\ code_section_emitted' = 1
    /\ phase_log' = Append(phase_log, PhaseDone("generate", error_log, program_start))
    /\ heap' = [heap EXCEPT !.frees = @ + NodeCount(program_start)]
    /\ Return("compilation successful", error_log, warnings, output')
    /\ UNCHANGED called
    /\ UNCHANGED <<source_code, position, current_line, all_tokens,
                   current_token_position, symbol_table, next_memory_location, error_log,
                   warnings, program_start>>

Next ==
    \/ CompileStart
    \/ Lex
    \/ Parse
    \/ Check
    \/ OpenFails
    \/ Generate

Spec == Init /\ [][Next]_vars

(***************************************************************************)
(* Properties of compile_program in compiler.c.                            *)
(***************************************************************************)
\* an invocation has returned and none is in progress
Returned == pc = "idle" /\ Len(history) > 0

LastReport == history[Len(history)]

\* generate_assembly_code was invoked by the invocation that returned last
GenerationRan == \E i \in 1..Len(phase_log) : phase_log[i].phase = "generate"

\* C1 as stated: an invocation reaches code generation if and only if its
\* error count is zero.
C1_GenerationIffNoErrors ==
    Returned => (GenerationRan <=> Len(error_log) = 0)

\* C1 amended: an invocation reaches code generation and writes the output if
\* and only if its error count is zero, parse_program returned a tree and the
\* output file could be opened; warnings play no part.
C1_GenerationIffNoErrorsAndTree ==
    Returned =>
        /\ GenerationRan <=> /\ Len(error_log) = 0
                             /\ ~IsNull(program_start)
                             /\ LastReport.result # "cannot create output file"
        /\ GenerationRan => /\ LastReport.result = "compilation successful"
                            /\ LastReport.output = output

\* generation reached although warnings were written
C1_Witness == Returned /\ GenerationRan /\ warnings # <<>>

PhaseOrder == <<"lex", "parse", "check", "generate">>

\* C2: the phases of one invocation run in the order lex, parse, check,
\* generate; a phase runs only if every earlier phase left the error count at
\* zero, and the checker and the generator only if the parser returned a tree.
C2_PhasesGated ==
    /\ Len(phase_log) <= Len(PhaseOrder)
    /\ \A i \in 1..Len(phase_log) : phase_log[i].phase = PhaseOrder[i]
    /\ \A i \in 2..Len(phase_log) : phase_log[i - 1].errors = 0
    /\ Len(phase_log) >= 3 => phase_log[2].tree

\* an invocation that ended after the lexer because it recorded an error
C2_Witness == Returned /\ Len(phase_log) = 1 /\ phase_log[1].errors > 0

\* C5: the i-th symbol of the table (from 0) has memory_location 8*i and
\* next_memory_location is 8*symbols_found.
C5_OffsetsStride ==
    /\ \A i \in 1..Len(symbol_table) :
           symbol_table[i].memory_location = SLOT_SIZE * (i - 1)
    /\ next_memory_location = SLOT_SIZE * Len(symbol_table)

\* two symbols declared around a declaration that failed
C5_Witness ==
    /\ Len(symbol_table) = 2
    /\ \E i \in 1..Len(error_log) : error_log[i].message = "Variable is already declared"

(***************************************************************************)
(* Properties of the output and of the warnings (compiler.c).              *)
(***************************************************************************)
Succeeded == Returned /\ LastReport.result = "compilation successful"

\* the lines of the output that name memory offset offset
LinesAt(out, offset) == {k \in 1..Len(out) : out[k].offset = offset}

\* the lines sb r0, offset(r0)
ZeroStoresAt(out, offset) ==
    {k \in LinesAt(out, offset) : out[k].mnemonic = "sb" /\ out[k].regs = <<R0, R0>>}

\* C6 as stated: after a compilation without errors every declared variable
\* has exactly one store sb r0, offset(r0) in the output, and it precedes
\* every other line that names the variable's offset.
C6_ZeroInitForEveryVariable ==
    Succeeded =>
        \A i \in 1..Len(symbol_table) :
            LET offset == symbol_table[i].memory_location IN
            /\ Cardinality(ZeroStoresAt(output, offset)) = 1
            /\ \A z \in ZeroStoresAt(output, offset) :
                   \A k \in LinesAt(output, offset) : z <= k

\* the statements of the list that starts at node, in order
RECURSIVE Statements(_)
Statements(node) ==
    IF IsNull(node) THEN <<>> ELSE <<[node EXCEPT !.next = NULL]>> \o Statements(node.next)

\* node's subtree holds an assignment, a compound assignment or an
\* initializer whose target is name
RECURSIVE Assigns(_, _)
Assigns(node, name) ==
    IF IsNull(node) THEN FALSE
    ELSE \/ node.node_type = "ASSIGNMENT_NODE" /\ node.token_info.text = name
         \/ /\ node.node_type = "COMPOUND_ASSIGN_NODE"
            /\ ~IsNull(node.left_child)
            /\ node.left_child.token_info.text = name
         \/ Assigns(node.left_child, name)
         \/ Assigns(node.right_child, name)
         \/ Assigns(node.next, name)

\* the semantic check of the current invocation has run
Checked == \E i \in 1..Len(phase_log) : phase_log[i].phase = "check"

Warned(name, line_number) ==
    \E i \in 1..Len(warnings) :
        warnings[i] = Warning("might not have a value", name, line_number)

\* C8 as stated: an increment or decrement statement on a declared variable
\* that is never assigned gets the warning that the variable might not have
\* a value, at the line of the statement.
C8_IncrementOfUnassignedWarns ==
    Checked =>
        \A k \in 1..Len(Statements(program_start)) :
            LET statement == Statements(program_start)[k] IN
            (/\ statement.node_type = "UNARY_NODE"
             /\ find_variable_(symbol_table, statement.left_child.token_info.text) # 0
             /\ ~Assigns(program_start, statement.left_child.token_info.text))
            => Warned(statement.left_child.token_info.text, statement.token_info.line)

\* the variable references read by the expression node, as <<name, line>>
RECURSIVE Reads(_)
Reads(node) ==
    IF IsNull(node) THEN {}
    ELSE IF node.node_type = "VARIABLE_NODE"
    THEN {<<node.token_info.text, node.token_info.line>>}
    ELSE Reads(node.left_child) \cup Reads(node.right_child)

\* the references a statement reads: the right-hand side of an assignment,
\* of a compound assignment and of an initializer
StatementReads(statement) ==
    IF statement.node_type = "ASSIGNMENT_NODE" THEN Reads(statement.left_child)
    ELSE IF statement.node_type = "COMPOUND_ASSIGN_NODE" THEN Reads(statement.right_child)
    ELSE IF statement.node_type = "DECLARATION_NODE"
            /\ ~IsNull(statement.left_child)
            /\ statement.left_child.node_type = "ASSIGNMENT_NODE"
    THEN Reads(statement.left_child.left_child)
    ELSE {}

\* C9 as stated: every read of a declared variable that comes, in statement
\* order, before any assignment to it gets the warning that the variable
\* might not have a value, and the check records errors for undeclared
\* names only.
C9_ReadBeforeAssignmentWarns ==
    Checked =>
        /\ \A k \in 1..Len(Statements(program_start)) :
               \A r \in StatementReads(Statements(program_start)[k]) :
                   (/\ find_variable_(symbol_table, r[1]) # 0
                    /\ \A j \in 1..(k - 1) : ~Assigns(Statements(program_start)[j], r[1]))
                   => Warned(r[1], r[2])
        /\ \A i \in 1..Len(error_log) : error_log[i].message = "Variable was not declared"

\* C10 as stated: two invocations on the same source that both got past
\* fopen leave the same errors, the same warnings and the same output.
C10_SecondInvocationIdentical ==
    \A i, j \in 1..Len(history) :
        (/\ history[i].result # "cannot create output file"
         /\ history[j].result # "cannot create output file")
        => history[i] = history[j]

\* the number of assignments, initializers, compound assignments, increments
\* and decrements in node's subtree whose target is name
RECURSIVE AssignmentCount(_, _)
AssignmentCount(node, name) ==
    IF IsNull(node) THEN 0
    ELSE (IF \/ node.node_type = "ASSIGNMENT_NODE" /\ node.token_info.text = name
             \/ /\ node.node_type = "COMPOUND_ASSIGN_NODE"
                /\ ~IsNull(node.left_child)
                /\ node.left_child.token_info.text = name
             \/ /\ node.node_type = "UNARY_NODE"
                /\ node.token_info.type \in {"INCREMENT", "DECREMENT"}
                /\ node.left_child.token_info.text = name
          THEN 1 ELSE 0)
         + AssignmentCount(node.left_child, name)
         + AssignmentCount(node.right_child, name)
         + AssignmentCount(node.next, name)

\* the lines sb reg, offset(r0) that store a computed value
ValueStoresAt(out, offset) ==
    {k \in LinesAt(out, offset) : out[k].mnemonic = "sb" /\ out[k].regs # <<R0, R0>>}

\* the statements a = b = ... of the program
ChainedAssignments ==
    {k \in 1..Len(Statements(program_start)) :
        /\ Statements(program_start)[k].node_type = "ASSIGNMENT_NODE"
        /\ Statements(program_start)[k].left_child.node_type = "ASSIGNMENT_NODE"}

\* the token positions where a statement starts with identifier = identifier =
ChainStarts ==
    {i \in 1..(Len(all_tokens) - 3) :
        /\ i = 1 \/ all_tokens[i - 1].type = "SEMICOLON"
        /\ all_tokens[i].type = "IDENTIFIER"
        /\ all_tokens[i + 1].type = "ASSIGN"
        /\ all_tokens[i + 2].type = "IDENTIFIER"
        /\ all_tokens[i + 3].type = "ASSIGN"}

\* name is declared by a token before position i
DeclaredAhead(name, i) ==
    \E j \in 2..(i - 1) :
        /\ all_tokens[j].type = "IDENTIFIER"
        /\ all_tokens[j].text = name
        /\ all_tokens[j - 1].type \in {"INT_KEYWORD", "CHAR_KEYWORD", "COMMA"}

\* the chained assignments to two variables declared ahead of them
DeclaredChainStarts ==
    {i \in ChainStarts : /\ DeclaredAhead(all_tokens[i].text, i)
                         /\ DeclaredAhead(all_tokens[i + 2].text, i)}

\* the parser's part: the statement is Assignment(a, Assignment(b, ...)) in the
\* tree and both variables are marked initialized
ChainParsed(i) ==
    /\ \E k \in ChainedAssignments :
           /\ Statements(program_start)[k].token_info.text = all_tokens[i].text
           /\ Statements(program_start)[k].left_child.token_info.text = all_tokens[i + 2].text
    /\ \A name \in {all_tokens[i].text, all_tokens[i + 2].text} :
           symbol_table[find_variable_(symbol_table, name)].is_initialized = 1

\* C12 as stated: after a compilation without errors, for every statement
\* a = b = expr with a and b declared, the tree holds
\* Assignment(a, Assignment(b, expr)), both variables are marked initialized,
\* and the output holds a store of a computed value to the offset of a and to
\* the offset of b for each assignment to it, the one of the chain included.
C12_ChainStoresEveryVariable ==
    Succeeded =>
        \A i \in DeclaredChainStarts :
            /\ ChainParsed(i)
            /\ \A name \in {all_tokens[i].text, all_tokens[i + 2].text} :
                   Cardinality(ValueStoresAt(
                       output,
                       symbol_table[find_variable_(symbol_table, name)].memory_location))
                     >= AssignmentCount(program_start, name)

\* the call of parse_statement that took the parser from s to r.s failed
StatementFailed(s, r) == Len(r.s.errs) > Len(s.errs)

\* the cursor is just past a ";" or on END_OF_FILE
Resynchronized(s) ==
    \/ peek_next_token(s).type = "END_OF_FILE"
    \/ s.pos > 0 /\ TokenAt(s.pos - 1).type = "SEMICOLON"

\* every failed call of parse_statement made by the loop of parse_program from
\* the parser state s leaves the cursor resynchronized
RECURSIVE FailuresResynchronize(_)
FailuresResynchronize(s) ==
    IF peek_next_token(s).type = "END_OF_FILE" THEN TRUE
    ELSE LET r == parse_statement_(s) IN
         /\ StatementFailed(s, r) => Resynchronized(r.s)
         /\ FailuresResynchronize(r.s)

\* C13 as stated: whenever parse_statement fails on a top-level statement, it
\* returns with the token cursor just past the next ";" or on END_OF_FILE,
\* so the next statement is parsed from a statement boundary.
C13_FailedStatementResynchronizes ==
    pc = "parse" => FailuresResynchronize(ParserState)

\* C14 as stated: when parse_program returns, every node that
\* create_tree_node allocated during the call is reachable from the returned
\* root through left_child, right_child and next, or has been freed.
C14_NoNodeLeaked ==
    pc = "parse" =>
        LET r == parse_program_(ParserState, NULL, 0) IN
        r.s.allocs = r.s.frees + NodeCount(r.node)

(***************************************************************************)
(* break_into_tokens on its own, one iteration of its loop at a time, over *)
(* every source string of at most MaxLen characters of LexAlphabet.        *)
(***************************************************************************)
MaxLen == 4

LexAlphabet == {"x", "5", "-", "+", "(", ")", "*", " "}

LexSources == UNION {[1..n -> LexAlphabet] : n \in 0..MaxLen}

InitLex ==
    /\ source_code \in LexSources
    /\ pc = "lex"
    /\ position = 0
    /\ current_line = 1
    /\ all_tokens = <<>>
    /\ current_token_position = 0
    /\ symbol_table = <<>>
    /\ next_memory_location = 0
    /\ error_log = <<>>
    /\ warnings = <<>>
    /\ program_start = NULL
    /\ heap = [allocs |-> 0, frees |-> 0]
    /\ used_registers = clear_registers
    /\ code_section_emitted = 0
    /\ output = <<>>
    /\ phase_log = <<>>
    /\ history = <<>>
    /\ arguments = <<>>
    /\ held = NoneHeld
    /\ returned = <<>>

\* one iteration of the while loop of break_into_tokens
LexStep ==
    /\ pc = "lex"
    /\ CharAt(source_code, position) # NUL
    /\ LET st == LexIteration(source_code, LexState) IN
         /\ position' = st.position
         /\ current_line' = st.current_line
         /\ all_tokens' = st.all_tokens
         /\ error_log' = st.error_log
    /\ UNCHANGED called
    /\ UNCHANGED <<source_code, pc, current_token_position, symbol_table,
                   next_memory_location, warnings, program_start, heap, used_registers,
                   code_section_emitted, output, phase_log, history>>

\* the END_OF_FILE token after the loop
LexEnd ==
    /\ pc = "lex"
    /\ CharAt(source_code, position) = NUL
    /\ all_tokens' = save_token(LexState, "END_OF_FILE", <<>>, current_line).all_tokens
    /\ pc' = "lexed"
    /\ UNCHANGED called
    /\ UNCHANGED <<source_code, position, current_line, current_token_position,
                   symbol_table, next_memory_location, error_log, warnings, program_start,
                   heap, used_registers, code_section_emitted, output, phase_log, history>>

NextLex ==
    \/ LexStep
    \/ LexEnd

SpecLex == InitLex /\ [][NextLex]_vars

\* where the next token starts: past the whitespace and the comments
TokenStart == skip_spaces_and_comments(source_code, LexState).position

\* the next token starts with a sign that a digit follows
SignBeforeDigit ==
    /\ pc = "lex"
    /\ CharAt(source_code, TokenStart) \in {"+", "-"}
    /\ IS_DIGIT(CharAt(source_code, TokenStart + 1))

\* the last character of the most recently emitted token, NUL before the first
LastEmittedCharacter ==
    IF all_tokens = <<>> \/ all_tokens[Len(all_tokens)].text = <<>> THEN NUL
    ELSE LET text == all_tokens[Len(all_tokens)].text IN text[Len(text)]

\* C3 as stated: a sign that a digit follows becomes part of the NUMBER token
\* if and only if the previous emitted character is neither alphanumeric nor
\* ")" nor "]"; otherwise the sign is a PLUS or MINUS token of its own.  (So
\* "x-5" is IDENTIFIER MINUS NUMBER(5), "(-5)" is LEFT_PAREN NUMBER(-5)
\* RIGHT_PAREN and "3-5" is NUMBER(3) MINUS NUMBER(5).)
C3_SignFoldedByEmittedCharacter ==
    [][SignBeforeDigit =>
          /\ Len(all_tokens') = Len(all_tokens) + 1
          /\ IF IS_ALPHANUMERIC(LastEmittedCharacter)
                \/ LastEmittedCharacter \in {")", "]"}
             THEN all_tokens'[Len(all_tokens')].type \in {"PLUS", "MINUS"}
             ELSE all_tokens'[Len(all_tokens')].type = "NUMBER"]_vars

(***************************************************************************)
(* src/transformer/transformer.c, the variant with float.  Its definitions *)
(* carry the prefix T_; where a function of transformer.c has the same     *)
(* text as in compiler.c (IS_WHITESPACE, IS_LETTER, IS_DIGIT,              *)
(* IS_ALPHANUMERIC, record_error, save_token, find_variable,               *)
(* mark_variable_initialized, mark_variable_used, get_next_token,          *)
(* peek_next_token, get_register, release_register_by_name,                *)
(* clear_registers) the definition above stands for both.                  *)
(***************************************************************************)
T_identify_keyword(word) ==
    IF word = <<"i", "n", "t">> THEN "INT_KEYWORD"
    ELSE IF word = <<"c", "h", "a", "r">> THEN "CHAR_KEYWORD"
    ELSE IF word = <<"f", "l", "o", "a", "t">> THEN "FLOAT_KEYWORD"
    ELSE "IDENTIFIER"

\* skip_spaces_and_comments: a comment that never closes ends at NUL and
\* records nothing
RECURSIVE T_skip_spaces_and_comments(_, _)
T_skip_spaces_and_comments(src, st) ==
    LET c == CharAt(src, st.position) IN
    IF c = NUL THEN st
    ELSE IF IS_WHITESPACE(c)
    THEN T_skip_spaces_and_comments(src,
             [st EXCEPT !.position = @ + 1,
                        !.current_line = IF c = "\n" THEN @ + 1 ELSE @])
    ELSE IF c = "/" /\ CharAt(src, st.position + 1) = "/"
    THEN LET e == LineEnd(src, st.position + 2) IN
         IF CharAt(src, e) = "\n"
         THEN T_skip_spaces_and_comments(src,
                  [st EXCEPT !.position = e + 1, !.current_line = @ + 1])
         ELSE T_skip_spaces_and_comments(src, [st EXCEPT !.position = e])
    ELSE IF c = "/" /\ CharAt(src, st.position + 1) = "*"
    THEN LET b == CommentBody(src, [position |-> st.position + 2,
                                    current_line |-> st.current_line,
                                    comment_depth |-> 1])
         IN T_skip_spaces_and_comments(src,
                [st EXCEPT !.position = b.position, !.current_line = b.current_line])
    ELSE st

\* the character-literal branch: no token and no error when the closing
\* quote is missing
T_LexCharLiteral(src, st) ==
    LET p1 == st.position + 1
        escaped == CharAt(src, p1) = "\\"
        e == CharAt(src, p1 + 1)
        char_value ==
            IF ~escaped THEN Ord(CharAt(src, p1))
            ELSE IF e = "n" THEN 10
            ELSE IF e = "t" THEN 9
            ELSE IF e = "r" THEN 13
            ELSE IF e = "0" THEN 0
            ELSE Ord(e)
        p2 == IF escaped THEN p1 + 2 ELSE p1 + 1
    IN IF CharAt(src, p2) = "'"
       THEN save_token([st EXCEPT !.position = p2 + 1], "CHAR_LITERAL",
                       IntToText(char_value), st.current_line)
       ELSE [st EXCEPT !.position = p2]

\* the digits of a literal from p on, then "." and more digits when a "."
\* follows: [position, buffer, is_float]
T_ReadNumber(src, p, buf) ==
    LET whole == ReadWhile(src, p, buf, TRUE) IN
    IF CharAt(src, whole.position) = "."
    THEN LET fraction == ReadWhile(src, whole.position + 1,
                                   Append(whole.buffer, "."), TRUE)
         IN [position |-> fraction.position, buffer |-> fraction.buffer,
             is_float |-> TRUE]
    ELSE [position |-> whole.position, buffer |-> whole.buffer, is_float |-> FALSE]

T_SaveNumber(st, r, line_number) ==
    save_token([st EXCEPT !.position = r.position],
               IF r.is_float THEN "FLOAT_LITERAL" ELSE "NUMBER", r.buffer, line_number)

\* one token of break_into_tokens, with st.position at a character that is
\* neither NUL nor the start of white space or of a comment; a character
\* that starts no token is skipped
T_LexToken(src, st) ==
    LET p == st.position
        c == CharAt(src, p)
        n == CharAt(src, p + 1)
        line == st.current_line
    IN IF c = "'" THEN T_LexCharLiteral(src, st)
       ELSE IF c = "-" /\ IS_DIGIT(n) /\ ~PrevCharIsOperand(src, p)
       THEN T_SaveNumber(st, T_ReadNumber(src, p + 1, <<"-">>), line)
       ELSE IF c = "+" /\ IS_DIGIT(n) /\ ~PrevCharIsOperand(src, p)
       THEN T_SaveNumber(st, T_ReadNumber(src, p + 1, <<>>), line)
       ELSE IF IS_DIGIT(c)
       THEN T_SaveNumber(st, T_ReadNumber(src, p, <<>>), line)
       ELSE IF IS_LETTER(c)
       THEN LET r == ReadWhile(src, p, <<>>, FALSE) IN
            save_token([st EXCEPT !.position = r.position],
                       T_identify_keyword(r.buffer), r.buffer, line)
       ELSE IF <<c, n>> \in DOMAIN TwoCharOperators
       THEN [save_token(st, TwoCharOperators[<<c, n>>], <<c, n>>, line)
                EXCEPT !.position = p + 2]
       ELSE IF c \in DOMAIN OneCharOperators
       THEN [save_token(st, OneCharOperators[c], <<c>>, line) EXCEPT !.position = p + 1]
       ELSE [st EXCEPT !.position = p + 1]

\* one iteration of the while loop of break_into_tokens
T_LexIteration(src, st) ==
    LET s1 == T_skip_spaces_and_comments(src, st) IN
    IF CharAt(src, s1.position) = NUL THEN s1 ELSE T_LexToken(src, s1)

RECURSIVE T_break_into_tokens(_, _)
T_break_into_tokens(src, st) ==
    IF CharAt(src, st.position) # NUL
    THEN T_break_into_tokens(src, T_LexIteration(src, st))
    ELSE save_token(st, "END_OF_FILE", <<>>, st.current_line)

(***************************************************************************)
(* transformer.c: symbol table and parser.  A parser state has two more    *)
(* fields than in compiler.c: fault, set when a null pointer has been      *)
(* dereferenced, and ub, the outcome this run takes at such a dereference. *)
(***************************************************************************)
T_Symbol(name, memory_location, type) ==
    [name |-> name, is_initialized |-> 0, is_used |-> 0,
     memory_location |-> memory_location, size |-> 8, type |-> type]

\* add_variable records no error; the result is [ok, s]
T_add_variable(s, variable_name, line_number, type) ==
    IF Len(s.syms) >= MAX_SYMBOLS THEN [ok |-> FALSE, s |-> s]
    ELSE IF find_variable_(s.syms, variable_name) # 0 THEN [ok |-> FALSE, s |-> s]
    ELSE [ok |-> TRUE,
          s |-> [s EXCEPT !.syms = Append(@, T_Symbol(Truncate(variable_name),
                                                     s.next_memory_location, type)),
                          !.next_memory_location = @ + SLOT_SIZE]]

\* expect_token records no error; the result is [ok, s]
T_expect_token(s, expected_type, expected_text) ==
    IF peek_next_token(s).type # expected_type
    THEN [ok |-> FALSE, s |-> s]
    ELSE [ok |-> TRUE, s |-> get_next_token(s)]

\* what a read through a null pointer does: the process dies, or the test
\* that reads it comes out true, or false
NullDereferenceOutcomes == {"crash", "taken", "not taken"}

RECURSIVE T_parse_unary_expression(_)
RECURSIVE T_parse_primary_expression(_)
RECURSIVE T_parse_postfix_expression(_)
RECURSIVE T_parse_multiplicative_expression(_)
RECURSIVE T_parse_additive_expression(_)
RECURSIVE T_parse_expression(_)
RECURSIVE T_MultiplicativeLoop(_, _)
RECURSIVE T_AdditiveLoop(_, _)

T_parse_unary_expression(s) ==
    LET current_token == peek_next_token(s) IN
    IF current_token.type \in {"PLUS", "MINUS"}
    THEN LET operand == T_parse_unary_expression_(get_next_token(s)) IN
         create_tree_node(operand.s, "UNARY_NODE", current_token, operand.node, NULL)
    ELSE IF current_token.type \in {"INCREMENT", "DECREMENT"}
    THEN LET operand == T_parse_primary_expression_(get_next_token(s)) IN
         create_tree_node(operand.s, "UNARY_NODE", current_token, operand.node, NULL)
    ELSE T_parse_postfix_expression_(s)

T_parse_primary_expression(s) ==
    LET current_token == peek_next_token(s) IN
    IF current_token.type = "NUMBER"
    THEN create_tree_node(get_next_token(s), "NUMBER_NODE", current_token, NULL, NULL)
    ELSE IF current_token.type = "FLOAT_LITERAL"
    THEN create_tree_node(get_next_token(s), "FLOAT_NODE", current_token, NULL, NULL)
    ELSE IF current_token.type = "CHAR_LITERAL"
    THEN create_tree_node(get_next_token(s), "CHAR_NODE", current_token, NULL, NULL)
    ELSE IF current_token.type = "IDENTIFIER"
    THEN create_tree_node(MarkUsed(get_next_token(s), current_token.text),
                          "VARIABLE_NODE", current_token, NULL, NULL)
    ELSE IF current_token.type = "LEFT_PAREN"
    THEN LET expression == T_parse_expression_(get_next_token(s)) IN
         Result(expression.node,
                T_expect_token_(expression.s, "RIGHT_PAREN", <<")">>).s)
    ELSE Result(NULL, s)

\* left_side->node_type is read with left_side NULL when the primary
\* expression is missing and ++ or -- follows
T_parse_postfix_expression(s) ==
    LET left_side == T_parse_primary_expression_(s)
        next_token == peek_next_token(left_side.s)
        postfix == create_tree_node(get_next_token(left_side.s), "UNARY_NODE",
                                    next_token, left_side.node, NULL)
    IN IF next_token.type \notin {"INCREMENT", "DECREMENT"} THEN left_side
       ELSE IF IsNull(left_side.node)
       THEN IF s.ub = "crash" THEN Result(NULL, [left_side.s EXCEPT !.fault = TRUE])
            ELSE IF s.ub = "taken" THEN postfix
            ELSE left_side
       ELSE IF left_side.node.node_type = "VARIABLE_NODE" THEN postfix
       ELSE left_side

T_MultiplicativeLoop(left_side, s) ==
    LET operator_token == peek_next_token(s) IN
    IF operator_token.type \in {"MULTIPLY", "DIVIDE"}
    THEN LET right_side == T_parse_unary_expression_(get_next_token(s))
             node == create_tree_node(right_side.s, "OPERATION_NODE", operator_token,
                                      left_side, right_side.node)
         IN T_MultiplicativeLoop_(node.node, node.s)
    ELSE Result(left_side, s)

T_parse_multiplicative_expression(s) ==
    LET left_side == T_parse_unary_expression_(s) IN
    T_MultiplicativeLoop_(left_side.node, left_side.s)

T_AdditiveLoop(left_side, s) ==
    LET operator_token == peek_next_token(s) IN
    IF operator_token.type \in {"PLUS", "MINUS"}
    THEN LET right_side == T_parse_multiplicative_expression_(get_next_token(s))
             node == create_tree_node(right_side.s, "OPERATION_NODE", operator_token,
                                      left_side, right_side.node)
         IN T_AdditiveLoop_(node.node, node.s)
    ELSE Result(left_side, s)

T_parse_additive_expression(s) ==
    LET left_side == T_parse_multiplicative_expression_(s) IN
    T_AdditiveLoop_(left_side.node, left_side.s)

T_parse_expression(s) == T_parse_additive_expression_(s)

RECURSIVE T_parse_assignment(_)
T_parse_assignment(s) ==
    LET variable_token == peek_next_token(s)
        s1 == get_next_token(s)
        operator_token == peek_next_token(s1)
    IN
    IF operator_token.type \in CompoundAssignTypes
    THEN LET expression == T_parse_expression_(get_next_token(s1))
             v == create_tree_node(MarkInitialized(expression.s, variable_token.text),
                                   "VARIABLE_NODE", variable_token, NULL, NULL)
         IN create_tree_node(v.s, "COMPOUND_ASSIGN_NODE", operator_token,
                             v.node, expression.node)
    ELSE LET s2 == T_expect_token_(s1, "ASSIGN", <<"=">>).s IN
         IF peek_next_token(s2).type = "IDENTIFIER" /\ TokenAt(s2.pos + 1).type = "ASSIGN"
         THEN LET nested_assignment == T_parse_assignment_(s2) IN
              create_tree_node(MarkInitialized(nested_assignment.s, variable_token.text),
                               "ASSIGNMENT_NODE", variable_token,
                               nested_assignment.node, NULL)
         ELSE LET expression == T_parse_expression_(s2) IN
              create_tree_node(MarkInitialized(expression.s, variable_token.text),
                               "ASSIGNMENT_NODE", variable_token, expression.node, NULL)

\* the while (1) loop of parse_declaration: the result of add_variable is
\* not looked at
RECURSIVE T_DeclarationLoop(_, _, _, _)
T_DeclarationLoop(s, type_token, var_type, declaration_list) ==
    LET variable_token == peek_next_token(s)
        s1 == T_add_variable_(get_next_token(s), variable_token.text,
                             variable_token.line, var_type).s
        next_token == peek_next_token(s1)
        assignment_node ==
            IF next_token.type \in {"ASSIGN"} \cup CompoundAssignTypes
            THEN LET expression == T_parse_expression_(get_next_token(s1)) IN
                 create_tree_node(MarkInitialized(expression.s, variable_token.text),
                                  "ASSIGNMENT_NODE", variable_token, expression.node, NULL)
            ELSE create_tree_node(s1, "VARIABLE_NODE", variable_token, NULL, NULL)
        decl_node == create_tree_node(assignment_node.s, "DECLARATION_NODE", type_token,
                                      assignment_node.node, NULL)
        list == LinkLast(declaration_list, decl_node.node)
    IN IF peek_next_token(decl_node.s).type = "COMMA"
       THEN T_DeclarationLoop_(get_next_token(decl_node.s), type_token, var_type, list)
       ELSE Result(list, decl_node.s)

T_parse_declaration(s) ==
    LET type_token == peek_next_token(s)
        var_type == IF type_token.type = "INT_KEYWORD" THEN "i"
                    ELSE IF type_token.type = "CHAR_KEYWORD" THEN "c"
                    ELSE "f"
        r == T_DeclarationLoop_(get_next_token(s), type_token, var_type, NULL)
    IN Result(r.node, T_expect_token_(r.s, "SEMICOLON", <<";">>).s)

\* a ++ or -- statement, the two tokens already read
T_IncrementStatement(s, op_token, var_token) ==
    LET v == create_tree_node(MarkInitialized(MarkUsed(s, var_token.text), var_token.text),
                              "VARIABLE_NODE", var_token, NULL, NULL)
        node == create_tree_node(v.s, "UNARY_NODE", op_token, v.node, NULL)
    IN Result(node.node, T_expect_token_(node.s, "SEMICOLON", <<";">>).s)

\* the end of parse_statement: an expression statement, or NULL with no
\* token read
T_ExpressionStatement(s) ==
    LET expr == T_parse_expression_(s) IN
    IF ~IsNull(expr.node)
    THEN Result(expr.node, T_expect_token_(expr.s, "SEMICOLON", <<";">>).s)
    ELSE Result(NULL, expr.s)

T_parse_statement(s) ==
    LET first == peek_next_token(s)
        s1 == get_next_token(s)
        second == peek_next_token(s1)
        s2 == get_next_token(s1)
        lookahead == TokenAt(s.pos + 1)
    IN
    IF first.type = "SEMICOLON" THEN Result(NULL, s1)
    ELSE IF first.type \in {"INT_KEYWORD", "CHAR_KEYWORD", "FLOAT_KEYWORD"}
    THEN T_parse_declaration_(s)
    ELSE IF first.type \in {"INCREMENT", "DECREMENT"}
    THEN T_IncrementStatement_(s2, first, second)
    ELSE IF first.type = "IDENTIFIER" /\ lookahead.type \in CompoundAssignTypes
    THEN LET expression == T_parse_expression_(MarkUsed(s2, first.text))
             v == create_tree_node(expression.s, "VARIABLE_NODE", first, NULL, NULL)
             compound_assign == create_tree_node(v.s, "COMPOUND_ASSIGN_NODE", second,
                                                 v.node, expression.node)
         IN Result(compound_assign.node,
                   T_expect_token_(compound_assign.s, "SEMICOLON", <<";">>).s)
    ELSE IF first.type = "IDENTIFIER" /\ lookahead.type = "ASSIGN"
    THEN LET assignment == T_parse_assignment_(s) IN
         Result(assignment.node, T_expect_token_(assignment.s, "SEMICOLON", <<";">>).s)
    ELSE IF first.type = "IDENTIFIER" /\ lookahead.type \in {"INCREMENT", "DECREMENT"}
    THEN T_IncrementStatement_(s2, second, first)
    ELSE T_ExpressionStatement_(s)

(***************************************************************************)
(* transformer.c: semantic check.  check_type_compatibility and            *)
(* check_for_unused_variables change nothing and write nothing.            *)
(***************************************************************************)
RECURSIVE T_get_expression_type(_, _)
T_get_expression_type(node, syms) ==
    IF IsNull(node) THEN "i"
    ELSE IF node.node_type = "NUMBER_NODE" THEN "i"
    ELSE IF node.node_type = "FLOAT_NODE" THEN "f"
    ELSE IF node.node_type = "CHAR_NODE" THEN "c"
    ELSE IF node.node_type = "VARIABLE_NODE"
    THEN LET i == find_variable_(syms, node.token_info.text) IN
         IF i # 0 THEN syms[i].type ELSE "i"
    ELSE IF node.node_type = "OPERATION_NODE"
    THEN IF T_get_expression_type_(node.left_child, syms) = "f"
            \/ T_get_expression_type_(node.right_child, syms) = "f"
         THEN "f" ELSE "i"
    ELSE "i"

RECURSIVE T_check_program_semantics(_, _)
T_check_program_semantics(node, cs) ==
    IF IsNull(node) THEN cs
    ELSE LET t == node.node_type
             line == node.token_info.line
             left_is_variable ==
                 ~IsNull(node.left_child) /\ node.left_child.node_type = "VARIABLE_NODE"
             c1 ==
                 IF t = "VARIABLE_NODE"
                 THEN CheckReference_(cs, node.token_info.text, line, FALSE)
                 ELSE IF t \in {"UNARY_NODE", "COMPOUND_ASSIGN_NODE"}
                 THEN LET c == IF left_is_variable
                               THEN [CheckReference_(cs, node.left_child.token_info.text,
                                                    line, FALSE)
                                        EXCEPT !.syms = mark_variable_used_(
                                                   @, node.left_child.token_info.text)]
                               ELSE cs
                      IN IF t = "UNARY_NODE" THEN c
                         ELSE T_check_program_semantics_(node.right_child, c)
                 ELSE IF t = "ASSIGNMENT_NODE"
                 THEN T_check_program_semantics_(
                          node.left_child,
                          CheckReference_(cs, node.token_info.text, line, FALSE))
                 ELSE IF t = "OPERATION_NODE"
                 THEN T_check_program_semantics_(
                          node.right_child,
                          T_check_program_semantics_(node.left_child, cs))
                 ELSE IF t = "DECLARATION_NODE"
                 THEN T_check_program_semantics_(node.left_child, cs)
                 ELSE cs
         IN T_check_program_semantics_(node.next, c1)

(***************************************************************************)
(* transformer.c: registers.  get_float_register returns either its static *)
(* buffer float_reg, which every later call overwrites, or the literal     *)
(* "f31".  A register reference is [static, name]: static says that the    *)
(* pointer is the buffer, whose content is read when the name is used;     *)
(* name is the string pointed to otherwise.  A generator state is          *)
(* [used, out, float_reg].                                                 *)
(***************************************************************************)
T_Register(name) == [static |-> FALSE, name |-> name]

T_StaticBuffer == [static |-> TRUE, name |-> <<>>]

\* the string a register reference points to now
T_Name(g, ref) == IF ref.static THEN g.float_reg ELSE ref.name

T_get_register_number(register_name) ==
    IF Len(register_name) > 1 /\ register_name[1] \in {"r", "R", "f", "F"}
    THEN LET reg_num == atoi_(Tail(register_name)) IN
         IF reg_num >= 0 /\ reg_num <= 31 THEN reg_num ELSE 0
    ELSE 0

\* get_register(): [reg, g]
T_Acquire(g) ==
    LET a == get_register_(g.used) IN
    [reg |-> T_Register(a.reg), g |-> [g EXCEPT !.used = a.used]]

\* release_register_by_name(reg)
T_Release(g, ref) == [g EXCEPT !.used = release_register_by_name_(@, T_Name(g, ref))]

\* get_float_register(): [reg, g]
T_get_float_register(g) ==
    IF \E i \in 1..31 : g.used[i] = 0
    THEN LET i == CHOOSE k \in 1..31 :
                      g.used[k] = 0 /\ \A j \in 1..(k - 1) : g.used[j] # 0
         IN [reg |-> T_StaticBuffer,
             g |-> [g EXCEPT !.used[i] = 1, !.float_reg = <<"f">> \o IntToText(i)]]
    ELSE [reg |-> T_Register(<<"f", "3", "1">>), g |-> g]

T_release_float_register(g, ref) ==
    LET reg_name == T_Name(g, ref) IN
    IF Len(reg_name) > 0 /\ reg_name[1] \in {"f", "F"}
    THEN LET reg_num == atoi_(Tail(reg_name)) IN
         IF reg_num >= 1 /\ reg_num < 32 THEN [g EXCEPT !.used[reg_num] = 0] ELSE g
    ELSE g

(***************************************************************************)
(* transformer.c: instruction encoder.                                     *)
(***************************************************************************)
\* supported_instructions[]: name, opcode_value, instruction_format, sub_code,
\* function_code
T_supported_instructions ==
    << <<"daddiu", 25, 1, 0, 0>>,
       <<"lb", 32, 1, 0, 0>>,
       <<"sb", 40, 1, 0, 0>>,
       <<"daddu", 0, 0, 0, 45>>,
       <<"dsubu", 0, 0, 0, 47>>,
       <<"dmulu", 0, 0, 2, 29>>,
       <<"ddivu", 0, 0, 2, 31>>,
       <<"mflo", 0, 0, 0, 18>>,
       <<"or", 0, 0, 0, 37>>,
       <<"dsll", 0, 3, 0, 56>>,
       <<"l.d", 53, 1, 0, 0>>,
       <<"s.d", 61, 1, 0, 0>>,
       <<"add.d", 17, 2, 17, 0>>,
       <<"sub.d", 17, 2, 17, 1>>,
       <<"mul.d", 17, 2, 17, 2>>,
       <<"div.d", 17, 2, 17, 3>>,
       <<"mfc1", 17, 2, 0, 0>>,
       <<"mtc1", 17, 2, 4, 0>>,
       <<"dmtc1", 17, 2, 5, 0>>,
       <<"cvt.d.w", 17, 2, 20, 33>>,
       <<"cvt.d.l", 17, 2, 21, 33>>,
       <<"lui", 15, 1, 0, 0>>,
       <<"ori", 13, 1, 0, 0>> >>

\* the index from 1 of the entry, 0 where the C function returns -1
T_find_instruction(instruction_name) ==
    IF \E i \in 1..Len(T_supported_instructions) :
           T_supported_instructions[i][1] = instruction_name
    THEN CHOOSE i \in 1..Len(T_supported_instructions) :
             T_supported_instructions[i][1] = instruction_name
    ELSE 0

\* x << k as an unsigned word
Field(x, k) == ShiftLeft(ToWord(x), k)

\* w & 0x1F
Low5(w) == [i \in BitPositions |-> IF i < 5 THEN w[i] ELSE 0]

T_create_instruction_code(instruction_name, source_reg, target_reg, dest_reg, immediate_value) ==
    LET instruction_index == T_find_instruction_(instruction_name) IN
    IF instruction_index = 0 THEN ZeroWord
    ELSE LET inst == T_supported_instructions[instruction_index]
             opcode == Field(inst[2], 26)
             function_code == ToWord(inst[5])
         IN
         IF inst[3] = 1
         THEN BitOr(BitOr(opcode, Field(source_reg, 21)),
                    BitOr(Field(target_reg, 16), Low16(ToWord(immediate_value))))
         ELSE IF inst[3] = 2
         THEN IF instruction_name \in {"mfc1", "mtc1", "dmtc1"}
              THEN BitOr(BitOr(opcode, Field(inst[4], 21)),
                         BitOr(BitOr(Field(target_reg, 16), Field(source_reg, 11)),
                               function_code))
              ELSE IF instruction_name \in {"cvt.d.w", "cvt.d.l"}
              THEN BitOr(BitOr(opcode, Field(inst[4], 21)),
                         BitOr(BitOr(Field(source_reg, 11), Field(dest_reg, 6)),
                               function_code))
              ELSE BitOr(BitOr(BitOr(opcode, Field(inst[4], 21)), Field(target_reg, 16)),
                         BitOr(BitOr(Field(source_reg, 11), Field(dest_reg, 6)),
                               function_code))
         ELSE IF inst[3] = 3
         THEN BitOr(BitOr(opcode, Field(source_reg, 16)),
                    BitOr(BitOr(Field(dest_reg, 11),
                                ShiftLeft(Low5(ToWord(immediate_value)), 6)),
                          function_code))
         ELSE IF instruction_name = "mflo"
         THEN BitOr(BitOr(opcode, Field(dest_reg, 11)), function_code)
         ELSE IF instruction_name \in {"dmulu", "ddivu"}
         THEN BitOr(BitOr(opcode, Field(source_reg, 21)),
                    BitOr(BitOr(Field(target_reg, 16), Field(inst[4], 6)), function_code))
         ELSE BitOr(BitOr(opcode, Field(source_reg, 21)),
                    BitOr(BitOr(Field(target_reg, 16), Field(dest_reg, 11)),
                          function_code))

\* display_binary_code: ";" and the digits
T_display_binary_code(value) == <<";">> \o display_binary_code(value)

\* one assembly line and the comment produce_machine_code writes under it:
\* the bits, or the text that the instruction could not be encoded
T_OutLine(kind, mnemonic, regs, imm, offset, word) ==
    [kind |-> kind, mnemonic |-> mnemonic, regs |-> regs, imm |-> imm,
     offset |-> offset, word |-> word,
     bits |-> IF word # ZeroWord THEN T_display_binary_code(word) ELSE <<>>,
     encode_error |-> word = ZeroWord]

\* one assembly line with the word produce_machine_code encodes for it
T_Line(mnemonic, regs, imm, offset, source_reg, target_reg, dest_reg, immediate_value) ==
    T_OutLine("instruction", mnemonic, regs, imm, offset,
              T_create_instruction_code_(mnemonic, source_reg, target_reg, dest_reg,
                                         immediate_value))

\* fprintf of one assembly line followed by produce_machine_code
T_Emit(g, mnemonic, regs, imm, offset, source_reg, target_reg, dest_reg, immediate_value) ==
    [g EXCEPT !.out = Append(@, T_Line(mnemonic, regs, imm, offset, source_reg,
                                       target_reg, dest_reg, immediate_value))]

(***************************************************************************)
(* transformer.c: float constants.  A decimal literal is the fraction      *)
(* numerator / denominator; float_val is the float nearest to it,          *)
(* mantissa * 2^(exponent - 23) with 2^23 <= mantissa < 2^24, and the      *)
(* double handed to load_float_constant has the same value.                *)
(***************************************************************************)
HexDigits ==
    <<"0", "1", "2", "3", "4", "5", "6", "7", "8", "9", "A", "B", "C", "D", "E", "F">>

\* printf("%X")
RECURSIVE HexText(_)
HexText(n) ==
    IF n < 16 THEN <<HexDigits[n + 1]>>
    ELSE Append(HexText(n \div 16), HexDigits[(n % 16) + 1])

\* printf("%d")
SignedText(n) == IF n < 0 THEN <<"-">> \o IntToText(0 - n) ELSE IntToText(n)

RECURSIVE LeadingDigits(_)
LeadingDigits(text) ==
    IF text = <<>> \/ ~IS_DIGIT(Head(text)) THEN <<>>
    ELSE <<Head(text)>> \o LeadingDigits(Tail(text))

PowerOfTen(k) == 10 ^ k

\* the decimal number at the start of text: [negative, numerator, denominator]
DecimalOf(text) ==
    LET negative == text # <<>> /\ Head(text) = "-"
        unsigned == IF text # <<>> /\ Head(text) \in {"-", "+"} THEN Tail(text) ELSE text
        whole == LeadingDigits(unsigned)
        rest == SubSeq(unsigned, Len(whole) + 1, Len(unsigned))
        fraction == IF rest # <<>> /\ Head(rest) = "." THEN LeadingDigits(Tail(rest))
                    ELSE <<>>
    IN [negative |-> negative,
        numerator |-> DigitsToInt(whole \o fraction, 0),
        denominator |-> PowerOfTen(Len(fraction))]

\* the largest e >= 0 with 2^e * d <= n, for n >= d
RECURSIVE ExponentUp(_, _, _)
ExponentUp(n, d, e) ==
    IF 2 * PowerOfTwo(e) * d <= n THEN ExponentUp(n, d, e + 1) ELSE e

\* the smallest k >= 1 with n * 2^k >= d, for 0 < n < d
RECURSIVE ExponentDown(_, _, _)
ExponentDown(n, d, k) ==
    IF n * PowerOfTwo(k) >= d THEN k ELSE ExponentDown(n, d, k + 1)

\* num / den rounded to the nearest integer, a tie to the even one
Rounded(num, den) ==
    LET q == num \div den
        r == num % den
    IN IF 2 * r > den \/ (2 * r = den /\ q % 2 = 1) THEN q + 1 ELSE q

\* float float_val = atof(text)
T_atof(text) ==
    LET v == DecimalOf_(text)
        n == v.numerator
        d == v.denominator
        e == IF n >= d THEN ExponentUp(n, d, 0) ELSE 0 - ExponentDown(n, d, 1)
        m == IF e <= 23 THEN Rounded(n * PowerOfTwo(23 - e), d)
             ELSE Rounded(n, d * PowerOfTwo(e - 23))
    IN IF n = 0 THEN [negative |-> v.negative, zero |-> TRUE, exponent |-> 0, mantissa |-> 0]
       ELSE IF m = PowerOfTwo(24)
       THEN [negative |-> v.negative, zero |-> FALSE, exponent |-> e + 1,
             mantissa |-> PowerOfTwo(23)]
       ELSE [negative |-> v.negative, zero |-> FALSE, exponent |-> e, mantissa |-> m]

\* (int)float_val
FloatToInt(f) ==
    LET magnitude == IF f.zero \/ f.exponent < 0 THEN 0
                     ELSE IF f.exponent <= 23
                     THEN f.mantissa \div PowerOfTwo(23 - f.exponent)
                     ELSE f.mantissa * PowerOfTwo(f.exponent - 23)
    IN IF f.negative THEN 0 - magnitude ELSE magnitude

\* the four 16-bit pieces of the bits of (double)float_val:
\* (high_32 >> 16) & 0xFFFF, high_32 & 0xFFFF, (low_32 >> 16) & 0xFFFF,
\* low_32 & 0xFFFF
DoubleBits(f) ==
    LET sign == IF f.negative THEN 32768 ELSE 0
        fraction == f.mantissa - PowerOfTwo(23)
    IN IF f.zero THEN <<sign, 0, 0, 0>>
       ELSE <<sign + (f.exponent + 1023) * 16 + (fraction \div PowerOfTwo(19)),
              (fraction \div 8) % 65536,
              (fraction % 8) * 8192,
              0>>

(***************************************************************************)
(* transformer.c: code generator.  A register name is read from its        *)
(* reference at the moment the line is written.                            *)
(***************************************************************************)
T_Number(g, ref) == T_get_register_number_(T_Name(g, ref))

\* daddiu reg, r0, imm
T_EmitImmediate(g, ref, imm_text, immediate_value) ==
    T_Emit(g, "daddiu", <<T_Name(g, ref), R0>>, imm_text, -1,
           0, T_Number_(g, ref), -1, immediate_value)

\* lb / sb / l.d / s.d reg, offset(r0)
T_EmitMemory(g, mnemonic, ref, memory_location) ==
    T_Emit(g, mnemonic, <<T_Name(g, ref), R0>>, <<>>, memory_location,
           0, T_Number_(g, ref), -1, memory_location)

\* dmtc1 int_reg, float_reg
T_EmitMove(g, int_reg, float_reg) ==
    T_Emit(g, "dmtc1", <<T_Name(g, int_reg), T_Name(g, float_reg)>>, <<>>, -1,
           T_Number_(g, int_reg), T_Number_(g, float_reg), -1, 0)

\* cvt.d.l float_reg, float_reg
T_EmitConvert(g, float_reg) ==
    T_Emit(g, "cvt.d.l", <<T_Name(g, float_reg), T_Name(g, float_reg)>>, <<>>, -1,
           T_Number_(g, float_reg), T_Number_(g, float_reg), T_Number_(g, float_reg), 0)

\* add.d / sub.d / mul.d / div.d dest, left, right for + - * /, nothing otherwise
T_EmitFloatOperation(g, c, dest, left, right) ==
    IF c \in {"+", "-", "*", "/"}
    THEN T_Emit(g, IF c = "+" THEN "add.d" ELSE IF c = "-" THEN "sub.d"
                   ELSE IF c = "*" THEN "mul.d" ELSE "div.d",
                <<T_Name(g, dest), T_Name(g, left), T_Name(g, right)>>, <<>>, -1,
                T_Number_(g, left), T_Number_(g, right), T_Number_(g, dest), 0)
    ELSE g

\* the operator of a node as one character, "" when it is not one character
OperatorCharacter(text) == IF Len(text) = 1 THEN text[1] ELSE ""

\* the operator of a compound assignment as one character
CompoundCharacter(text) ==
    IF Len(text) = 2 /\ text[2] = "=" THEN text[1] ELSE ""

\* daddu / dsubu result, left, right; dmulu / ddivu left, right then mflo result
T_EmitOperation(g, c, result_register, left, right) ==
    IF c \in {"+", "-"}
    THEN T_Emit(g, IF c = "+" THEN "daddu" ELSE "dsubu",
                <<T_Name(g, result_register), T_Name(g, left), T_Name(g, right)>>,
                <<>>, -1,
                T_Number_(g, left), T_Number_(g, right), T_Number_(g, result_register), -1)
    ELSE IF c \in {"*", "/"}
    THEN T_Emit(T_Emit(g, IF c = "*" THEN "dmulu" ELSE "ddivu",
                       <<T_Name(g, left), T_Name(g, right)>>, <<>>, -1,
                       T_Number_(g, left), T_Number_(g, right), -1, -1),
                "mflo", <<T_Name(g, result_register)>>, <<>>, -1,
                -1, -1, T_Number_(g, result_register), -1)
    ELSE g

T_load_float_constant(value, float_reg, g) ==
    LET bits == DoubleBits_(value)
        high == T_Acquire(g)
        low == T_Acquire(high.g)
        r_high == high.reg
        r_low == low.reg
        h == T_Number_(g, r_high)
        l == T_Number_(g, r_low)
        hn == T_Name(g, r_high)
        ln == T_Name(g, r_low)
        hex(k) == <<"0", "x">> \o HexText(bits[k])
        lines == <<T_Line("lui", <<hn>>, hex(1), -1, 0, h, -1, bits[1]),
                   T_Line("ori", <<hn, hn>>, hex(2), -1, h, h, -1, bits[2]),
                   T_Line("dsll", <<hn, hn>>, <<"1", "6">>, -1, 0, h, h, 16),
                   T_Line("dsll", <<hn, hn>>, <<"1", "6">>, -1, 0, h, h, 16),
                   T_Line("lui", <<ln>>, hex(3), -1, 0, l, -1, bits[3]),
                   T_Line("ori", <<ln, ln>>, hex(4), -1, l, l, -1, bits[4]),
                   T_Line("or", <<hn, hn, ln>>, <<>>, -1, h, l, h, 0)>>
        g7 == [low.g EXCEPT !.out = @ \o lines]
        g8 == T_EmitMove(g7, r_high, float_reg)
    IN T_Release(T_Release(g8, r_high), r_low)

\* "r1", which the float branch names for a number or a character
R1 == T_Register(<<"r", "1">>)

RECURSIVE T_generate_expression_code(_, _, _)
T_generate_expression_code(node, g, result_register) ==
    IF IsNull(node) THEN g
    ELSE LET t == node.node_type
             text == node.token_info.text
             i == find_variable_(symbol_table, text)
         IN
         IF T_get_expression_type_(node, symbol_table) = "f"
         THEN LET f == T_get_float_register(g)
                  float_reg == f.reg
                  body ==
                      IF t \in {"NUMBER_NODE", "CHAR_NODE"}
                      THEN T_EmitConvert(
                               T_EmitMove(T_EmitImmediate(f.g, R1, text, atoi_(text)),
                                          R1, float_reg),
                               float_reg)
                      ELSE IF t = "FLOAT_NODE"
                      THEN T_load_float_constant_(T_atof_(text), float_reg, f.g)
                      ELSE IF t = "VARIABLE_NODE"
                      THEN IF i = 0 THEN f.g
                           ELSE IF symbol_table[i].type = "f"
                           THEN T_EmitMemory(f.g, "l.d", float_reg,
                                             symbol_table[i].memory_location)
                           ELSE LET a == T_Acquire(f.g)
                                    int_reg == a.reg
                                IN T_Release(
                                       T_EmitConvert(
                                           T_EmitMove(
                                               T_EmitMemory(a.g, "lb", int_reg,
                                                   symbol_table[i].memory_location),
                                               int_reg, float_reg),
                                           float_reg),
                                       int_reg)
                      ELSE IF t = "OPERATION_NODE"
                      THEN LET l == T_get_float_register(f.g)
                               r == T_get_float_register(l.g)
                               left_float_reg == l.reg
                               right_float_reg == r.reg
                               g1 == T_generate_expression_code_(node.left_child, r.g,
                                                                left_float_reg)
                               g2 == T_generate_expression_code_(node.right_child, g1,
                                                                right_float_reg)
                               g3 == T_EmitFloatOperation(g2, OperatorCharacter(text),
                                         float_reg, left_float_reg, right_float_reg)
                           IN T_release_float_register(
                                  T_release_float_register(g3, left_float_reg),
                                  right_float_reg)
                      ELSE f.g
              IN T_release_float_register(body, float_reg)
         ELSE IF t \in {"NUMBER_NODE", "CHAR_NODE"}
         THEN T_EmitImmediate(g, result_register, text, atoi_(text))
         ELSE IF t = "FLOAT_NODE"
         THEN LET int_val == FloatToInt_(T_atof_(text)) IN
              T_EmitImmediate(g, result_register, SignedText(int_val), int_val)
         ELSE IF t = "VARIABLE_NODE"
         THEN IF i # 0
              THEN T_EmitMemory(g, "lb", result_register, symbol_table[i].memory_location)
              ELSE g
         ELSE IF t = "OPERATION_NODE"
         THEN LET l == T_Acquire(g)
                  r == T_Acquire(l.g)
                  left_register == l.reg
                  right_register == r.reg
                  g1 == T_generate_expression_code_(node.left_child, r.g, left_register)
                  g2 == T_generate_expression_code_(node.right_child, g1, right_register)
                  g3 == T_EmitOperation(g2, OperatorCharacter(text), result_register,
                                        left_register, right_register)
              IN T_Release(T_Release(g3, left_register), right_register)
         ELSE g

T_generate_assignment_code(variable_name, expression, g) ==
    LET i == find_variable_(symbol_table, variable_name) IN
    IF i = 0 THEN g
    ELSE IF symbol_table[i].type = "f"
    THEN LET f == T_get_float_register(g)
             a == T_Acquire(f.g)
             float_reg == f.reg
             temp_reg == a.reg
             g1 == T_generate_expression_code_(expression, a.g, temp_reg)
             g2 == T_EmitMove(g1, temp_reg, float_reg)
             g3 == IF T_get_expression_type_(expression, symbol_table) # "f"
                   THEN T_EmitConvert(g2, float_reg)
                   ELSE g2
             g4 == T_EmitMemory(g3, "s.d", float_reg, symbol_table[i].memory_location)
         IN T_release_float_register(T_Release(g4, temp_reg), float_reg)
    ELSE LET a == T_Acquire(g)
             result_register == a.reg
             g1 == T_generate_expression_code_(expression, a.g, result_register)
         IN T_Release(T_EmitMemory(g1, "sb", result_register,
                                   symbol_table[i].memory_location),
                      result_register)

\* the first loop of generate_assembly_code: a declaration without
\* initializer of a variable whose type is float
RECURSIVE T_ZeroInitPass(_, _)
T_ZeroInitPass(current, g) ==
    IF IsNull(current) THEN g
    ELSE LET i == IF current.node_type = "DECLARATION_NODE"
                     /\ ~IsNull(current.left_child)
                     /\ current.left_child.node_type = "VARIABLE_NODE"
                  THEN find_variable_(symbol_table, current.left_child.token_info.text)
                  ELSE 0
         IN T_ZeroInitPass_(current.next,
                IF i # 0 /\ symbol_table[i].type = "f"
                THEN LET f == T_get_float_register(g)
                         a == T_Acquire(f.g)
                         float_reg == f.reg
                         temp_reg == a.reg
                         g1 == T_EmitImmediate(a.g, temp_reg, <<"0">>, 0)
                         g2 == T_EmitConvert(T_EmitMove(g1, temp_reg, float_reg), float_reg)
                         g3 == T_EmitMemory(g2, "s.d", float_reg,
                                            symbol_table[i].memory_location)
                     IN T_release_float_register(T_Release(g3, temp_reg), float_reg)
                ELSE g)

\* case COMPOUND_ASSIGN_NODE of the second loop, for the float variable
\* symbol_table[i]
T_CompoundAssignment(current, i, g) ==
    LET f == T_get_float_register(g)
        e == T_get_float_register(f.g)
        a == T_Acquire(e.g)
        float_reg == f.reg
        expr_reg == e.reg
        temp_reg == a.reg
        location == symbol_table[i].memory_location
        g1 == T_EmitMemory(a.g, "l.d", float_reg, location)
        g2 == T_generate_expression_code_(current.right_child, g1, temp_reg)
        g3 == T_EmitMove(g2, temp_reg, expr_reg)
        g4 == IF T_get_expression_type_(current.right_child, symbol_table) # "f"
              THEN T_EmitConvert(g3, expr_reg)
              ELSE g3
        g5 == T_EmitFloatOperation(g4, CompoundCharacter(current.token_info.text),
                                   float_reg, float_reg, expr_reg)
        g6 == T_EmitMemory(g5, "s.d", float_reg, location)
    IN T_Release(T_release_float_register(T_release_float_register(g6, float_reg),
                                          expr_reg),
                 temp_reg)

\* the second loop of generate_assembly_code; its switch has no case for
\* UNARY_NODE
RECURSIVE T_StatementPass(_, _)
T_StatementPass(current, g) ==
    IF IsNull(current) THEN g
    ELSE LET t == current.node_type
             l == current.left_child
             i == IF ~IsNull(l) /\ l.node_type = "VARIABLE_NODE"
                  THEN find_variable_(symbol_table, l.token_info.text)
                  ELSE 0
             g1 == IF t = "DECLARATION_NODE"
                   THEN IF ~IsNull(l) /\ l.node_type = "ASSIGNMENT_NODE"
                        THEN T_generate_assignment_code_(l.token_info.text, l.left_child, g)
                        ELSE g
                   ELSE IF t = "ASSIGNMENT_NODE"
                   THEN T_generate_assignment_code_(current.token_info.text, l, g)
                   ELSE IF t = "COMPOUND_ASSIGN_NODE"
                   THEN IF i # 0 /\ symbol_table[i].type = "f"
                        THEN T_CompoundAssignment_(current, i, g)
                        ELSE g
                   ELSE g
         IN T_StatementPass_(current.next, g1)

\* the line .code
T_CodeDirective ==
    [kind |-> "directive", mnemonic |-> ".code", regs |-> <<>>, imm |-> <<>>,
     offset |-> -1, word |-> ZeroWord, bits |-> <<>>, encode_error |-> FALSE]

T_generate_assembly_code(node, g) ==
    IF IsNull(node) THEN g
    ELSE T_StatementPass_(node,
             T_ZeroInitPass_(node, [g EXCEPT !.out = Append(@, T_CodeDirective)]))

(***************************************************************************)
(* transformer.c: inputs.  A source string is a concatenation of at most   *)
(* T_MaxStmts pieces of program text.                                      *)
(***************************************************************************)
T_MaxStmts == 2

\* int a;\n  a++;  float f=1.5;  f+=2;  a+=2;  f=f*2;  ()++;  )  float a;
\* b=1;
T_Pieces ==
    << <<"i", "n", "t", " ", "a", ";", "\n">>,
       <<"a", "+", "+", ";">>,
       <<"f", "l", "o", "a", "t", " ", "f", "=", "1", ".", "5", ";">>,
       <<"f", "+", "=", "2", ";">>,
       <<"a", "+", "=", "2", ";">>,
       <<"f", "=", "f", "*", "2", ";">>,
       <<"(", ")", "+", "+", ";">>,
       <<")">>,
       <<"f", "l", "o", "a", "t", " ", "a", ";">>,
       <<"b", "=", "1", ";">> >>

RECURSIVE T_Concat(_, _)
T_Concat(f, i) == IF i > Len(f) THEN <<>> ELSE T_Pieces[f[i]] \o T_Concat(f, i + 1)

T_Sources ==
    UNION {{T_Concat(f, 1) : f \in [1..n -> 1..Len(T_Pieces)]} : n \in 0..T_MaxStmts}

(***************************************************************************)
(* transformer.c: main and compile_program as a state machine.  pc is      *)
(* "T_idle" before the one call that main makes, then "T_lex", "T_parse",  *)
(* "T_check", "T_generate", and "T_exited" after the return; "T_crashed"   *)
(* when the process has died and "T_hung" when parse_program loops without *)
(* reading a token.                                                        *)
(***************************************************************************)
T_ParserState(ub) ==
    [pos |-> current_token_position, syms |-> symbol_table,
     next_memory_location |-> next_memory_location, errs |-> error_log,
     allocs |-> heap.allocs, frees |-> heap.frees,
     fault |-> FALSE, ub |-> ub, hung |-> FALSE]

\* parse_program from parser state s; the loop is left with fault set when a
\* statement dereferenced a null pointer, and with hung set when a statement
\* read no token, which every later iteration repeats
RECURSIVE T_parse_program(_, _, _)
T_parse_program(s, program_start_, current_statement) ==
    IF peek_next_token(s).type = "END_OF_FILE" THEN Result(program_start_, s)
    ELSE LET r == T_parse_statement_(s) IN
         IF r.s.fault THEN Result(program_start_, r.s)
         ELSE IF r.s.pos = s.pos THEN Result(program_start_, [r.s EXCEPT !.hung = TRUE])
         ELSE IF IsNull(r.node) THEN T_parse_program_(r.s, program_start_, current_statement)
         ELSE IF IsNull(program_start_) THEN T_parse_program_(r.s, r.node, 1)
         ELSE T_parse_program_(r.s, SetNextAt(program_start_, current_statement, r.node),
                              current_statement + 1)

(***************************************************************************)
(* The calls F_ of the modelled functions, by name.                        *)
(***************************************************************************)
Call(fn, a) ==
    CASE fn = "parse_unary_expression" -> parse_unary_expression(a[1])
      [] fn = "parse_primary_expression" -> parse_primary_expression(a[1])
      [] fn = "parse_postfix_expression" -> parse_postfix_expression(a[1])
      [] fn = "MultiplicativeLoop" -> MultiplicativeLoop(a[1], a[2])
      [] fn = "parse_multiplicative_expression" -> parse_multiplicative_expression(a[1])
      [] fn = "AdditiveLoop" -> AdditiveLoop(a[1], a[2])
      [] fn = "parse_additive_expression" -> parse_additive_expression(a[1])
      [] fn = "parse_expression" -> parse_expression(a[1])
      [] fn = "parse_assignment" -> parse_assignment(a[1])
      [] fn = "DeclarationLoop" -> DeclarationLoop(a[1], a[2], a[3])
      [] fn = "parse_declaration" -> parse_declaration(a[1])
      [] fn = "IncrementStatement" -> IncrementStatement(a[1], a[2], a[3])
      [] fn = "StatementFallback" -> StatementFallback(a[1])
      [] fn = "parse_statement" -> parse_statement(a[1])
      [] fn = "parse_program" -> parse_program(a[1], a[2], a[3])
      [] fn = "create_instruction_code" -> create_instruction_code(a[1], a[2], a[3], a[4], a[5])
      [] fn = "generate_expression_code" -> generate_expression_code(a[1], a[2], a[3])
      [] fn = "generate_unary_operation_code" -> generate_unary_operation_code(a[1], a[2])
      [] fn = "generate_compound_assignment_code" -> generate_compound_assignment_code(a[1], a[2], a[3], a[4])
      [] fn = "generate_assignment_code" -> generate_assignment_code(a[1], a[2], a[3])
      [] fn = "ZeroInitPass" -> ZeroInitPass(a[1], a[2])
      [] fn = "StatementPass" -> StatementPass(a[1], a[2])
      [] fn = "generate_assembly_code" -> generate_assembly_code(a[1], a[2], a[3])
      [] fn = "T_parse_unary_expression" -> T_parse_unary_expression(a[1])
      [] fn = "T_parse_primary_expression" -> T_parse_primary_expression(a[1])
      [] fn = "T_parse_postfix_expression" -> T_parse_postfix_expression(a[1])
      [] fn = "T_MultiplicativeLoop" -> T_MultiplicativeLoop(a[1], a[2])
      [] fn = "T_parse_multiplicative_expression" -> T_parse_multiplicative_expression(a[1])
      [] fn = "T_AdditiveLoop" -> T_AdditiveLoop(a[1], a[2])
      [] fn = "T_parse_additive_expression" -> T_parse_additive_expression(a[1])
      [] fn = "T_parse_expression" -> T_parse_expression(a[1])
      [] fn = "T_parse_assignment" -> T_parse_assignment(a[1])
      [] fn = "T_DeclarationLoop" -> T_DeclarationLoop(a[1], a[2], a[3], a[4])
      [] fn = "T_parse_declaration" -> T_parse_declaration(a[1])
      [] fn = "T_IncrementStatement" -> T_IncrementStatement(a[1], a[2], a[3])
      [] fn = "T_ExpressionStatement" -> T_ExpressionStatement(a[1])
      [] fn = "T_parse_statement" -> T_parse_statement(a[1])
      [] fn = "T_parse_program" -> T_parse_program(a[1], a[2], a[3])
      [] fn = "T_create_instruction_code" -> T_create_instruction_code(a[1], a[2], a[3], a[4], a[5])
      [] fn = "T_load_float_constant" -> T_load_float_constant(a[1], a[2], a[3])
      [] fn = "T_generate_expression_code" -> T_generate_expression_code(a[1], a[2], a[3])
      [] fn = "T_generate_assignment_code" -> T_generate_assignment_code(a[1], a[2], a[3])
      [] fn = "T_ZeroInitPass" -> T_ZeroInitPass(a[1], a[2])
      [] fn = "T_CompoundAssignment" -> T_CompoundAssignment(a[1], a[2], a[3])
      [] fn = "T_StatementPass" -> T_StatementPass(a[1], a[2])
      [] fn = "T_generate_assembly_code" -> T_generate_assembly_code(a[1], a[2])
      [] fn = "get_register_number" -> get_register_number(a[1])
      [] fn = "T_get_register_number" -> T_get_register_number(a[1])
      [] fn = "atoi" -> atoi(a[1])
      [] fn = "T_atof" -> T_atof(a[1])
      [] fn = "DoubleBits" -> DoubleBits(a[1])
      [] fn = "FloatToInt" -> FloatToInt(a[1])
      [] fn = "DecimalOf" -> DecimalOf(a[1])
      [] fn = "release_register_by_name" -> release_register_by_name(a[1], a[2])
      [] fn = "get_register" -> get_register(a[1])
      [] fn = "ExpectSemicolon" -> ExpectSemicolon(a[1])
      [] fn = "T_get_expression_type" -> T_get_expression_type(a[1], a[2])
      [] fn = "add_variable" -> add_variable(a[1], a[2], a[3])
      [] fn = "T_add_variable" -> T_add_variable(a[1], a[2], a[3], a[4])
      [] fn = "expect_token" -> expect_token(a[1], a[2], a[3])
      [] fn = "T_expect_token" -> T_expect_token(a[1], a[2], a[3])
      [] fn = "SkipStatement" -> SkipStatement(a[1])
      [] fn = "find_variable" -> find_variable(a[1], a[2])
      [] fn = "check_program_semantics" -> check_program_semantics(a[1], a[2])
      [] fn = "T_check_program_semantics" -> T_check_program_semantics(a[1], a[2])
      [] fn = "CheckReference" -> CheckReference(a[1], a[2], a[3], a[4])
      [] fn = "mark_variable_initialized" -> mark_variable_initialized(a[1], a[2])
      [] fn = "mark_variable_used" -> mark_variable_used(a[1], a[2])
      [] fn = "T_Number" -> T_Number(a[1], a[2])
      [] fn = "check_for_unused_variables" -> check_for_unused_variables(a[1])
      [] fn = "find_instruction" -> find_instruction(a[1])
      [] fn = "T_find_instruction" -> T_find_instruction(a[1])

\* the return statements of compile_program, main returning after them
T_Return(result, errs, out) ==
    /\ pc' = "T_exited"
    /\ history' = Append(history, Report(result, errs, <<>>, out))

InitT ==
    /\ source_code \in T_Sources
    /\ pc = "T_idle"
    /\ position = 0
    /\ current_line = 1
    /\ all_tokens = <<>>
    /\ current_token_position = 0
    /\ symbol_table = <<>>
    /\ next_memory_location = 0
    /\ error_log = <<>>
    /\ warnings = <<>>
    /\ program_start = NULL
    /\ heap = [allocs |-> 0, frees |-> 0]
    /\ used_registers = [i \in 0..(REGISTER_COUNT - 1) |-> 0]
    /\ code_section_emitted = 0
    /\ output = <<>>
    /\ phase_log = <<>>
    /\ history = <<>>
    /\ arguments = <<>>
    /\ held = NoneHeld
    /\ returned = <<>>

\* the call from main and the resets at the top of compile_program
T_CompileStart ==
    /\ pc = "T_idle"
    /\ pc' = "T_lex"
    /\ all_tokens' = <<>>
    /\ current_token_position' = 0
    /\ symbol_table' = <<>>
    /\ next_memory_location' = 0
    /\ error_log' = <<>>
    /\ used_registers' = clear_registers
    /\ position' = 0
    /\ current_line' = 1
    /\ UNCHANGED called
    /\ UNCHANGED <<source_code, warnings, program_start, heap, code_section_emitted,
                   output, phase_log, history>>

\* break_into_tokens and the test that follows the call
T_Lex ==
    /\ pc = "T_lex"
    /\ LET st == T_break_into_tokens(source_code, LexState) IN
         /\ position' = st.position
         /\ current_line' = st.current_line
         /\ all_tokens' = st.all_tokens
         /\ error_log' = st.error_log
    /\ phase_log' = Append(phase_log, PhaseDone("lex", error_log', NULL))
    /\ IF LexicalErrorsFound(error_log')
       THEN T_Return("lexical errors found", error_log', <<>>)
       ELSE pc' = "T_parse" /\ history' = history
    /\ UNCHANGED called
    /\ UNCHANGED <<source_code, current_token_position, symbol_table,
                   next_memory_location, warnings, program_start,
                   heap, used_registers, code_section_emitted, output>>

\* parse_program and the test that follows the call
T_Parse ==
    /\ pc = "T_parse"
    /\ \E ub \in NullDereferenceOutcomes :
         \E r \in {T_parse_program_(T_ParserState(ub), NULL, 0)} :
         /\ current_token_position' = r.s.pos
         /\ symbol_table' = r.s.syms
         /\ next_memory_location' = r.s.next_memory_location
         /\ error_log' = r.s.errs
         /\ program_start' = r.node
         /\ IF r.s.fault \/ r.s.hung
            THEN /\ pc' = IF r.s.fault THEN "T_crashed" ELSE "T_hung"
                 /\ heap' = [allocs |-> r.s.allocs, frees |-> r.s.frees]
                 /\ UNCHANGED <<phase_log, history>>
            ELSE /\ phase_log' = Append(phase_log, PhaseDone("parse", r.s.errs, r.node))
                 /\ IF SyntaxErrorsFound(r.s.errs, r.node)
                    THEN /\ heap' = [allocs |-> r.s.allocs,
                                     frees |-> r.s.frees + NodeCount(r.node)]
                         /\ T_Return("syntax errors found", r.s.errs, <<>>)
                    ELSE /\ heap' = [allocs |-> r.s.allocs, frees |-> r.s.frees]
                         /\ pc' = "T_check"
                         /\ history' = history
    /\ UNCHANGED called
    /\ UNCHANGED <<source_code, position, current_line, all_tokens, warnings,
                   used_registers, code_section_emitted, output>>

\* check_program_semantics, check_for_unused_variables and the test that follows
T_Check ==
    /\ pc = "T_check"
    /\ \E cs \in {T_check_program_semantics_(
                      program_start,
                      [syms |-> symbol_table, errs |-> error_log, warns |-> warnings])} :
          /\ symbol_table' = cs.syms
          /\ error_log' = cs.errs
          /\ warnings' = cs.warns
    /\ phase_log' = Append(phase_log, PhaseDone("check", error_log', program_start))
    /\ IF SemanticErrorsFound(error_log')
       THEN /\ heap' = [heap EXCEPT !.frees = @ + NodeCount(program_start)]
            /\ T_Return("semantic errors found", error_log', <<>>)
       ELSE pc' = "T_generate" /\ UNCHANGED <<heap, history>>
    /\ UNCHANGED called
    /\ UNCHANGED <<source_code, position, current_line, all_tokens,
                   current_token_position, next_memory_location, program_start,
                   used_registers, code_section_emitted, output>>

\* fopen(output_filename, "w") returns NULL
T_OpenFails ==
    /\ pc = "T_generate"
    /\ heap' = [heap EXCEPT !.frees = @ + NodeCount(program_start)]
    /\ T_Return("cannot create output file", error_log, <<>>)
    /\ UNCHANGED called
    /\ UNCHANGED <<source_code, position, current_line, all_tokens,
                   current_token_position, symbol_table, next_memory_location, error_log,
                   warnings, program_start, used_registers,
                   code_section_emitted, output, phase_log>>

\* fopen succeeds: setup_registers, generate_assembly_code, fclose,
\* show_generated_code, whose own fopen succeeds or not, and the return
T_Generate ==
    /\ pc = "T_generate"
    /\ \E g \in {T_generate_assembly_code_(
                     program_start,
                     [used |-> clear_registers, out |-> <<>>, float_reg |-> <<>>])} :
          /\ used_registers' = g.used
          /\ output' = g.out
    /\ phase_log' = Append(phase_log, PhaseDone("generate", error_log, program_start))
    /\ heap' = [heap EXCEPT !.frees = @ + NodeCount(program_start)]
    /\ \E shown \in BOOLEAN :
           T_Return(IF shown THEN "generated code shown"
                    ELSE "could not open the generated file",
                    error_log, output')
    /\ UNCHANGED called
    /\ UNCHANGED <<source_code, position, current_line, all_tokens,
                   current_token_position, symbol_table, next_memory_location, error_log,
                   warnings, program_start, code_section_emitted>>

NextT ==
    \/ T_CompileStart
    \/ T_Lex
    \/ T_Parse
    \/ T_Check
    \/ T_OpenFails
    \/ T_Generate

SpecT == InitT /\ [][NextT]_vars

\* the two programs of the repository
SpecAll == (Init \/ InitT) /\ [][Next \/ NextT]_vars

(***************************************************************************)
(* Properties of the two programs.                                         *)
(***************************************************************************)
\* parse_program of the current invocation has returned
Parsed == \E i \in 1..Len(phase_log) : phase_log[i].phase = "parse"

\* the source declares one name in each declaration
SingleDeclarations == \A k \in 1..Len(all_tokens) : all_tokens[k].type # "COMMA"

\* the tokens that are declared: an identifier that follows the type keyword
Declarators ==
    {k \in 2..Len(all_tokens) :
        /\ all_tokens[k].type = "IDENTIFIER"
        /\ all_tokens[k - 1].type \in {"INT_KEYWORD", "CHAR_KEYWORD", "FLOAT_KEYWORD"}}

\* the declarators whose name an earlier declarator has declared
Redeclarations ==
    {k \in Declarators :
        \E j \in Declarators : j < k /\ all_tokens[j].text = all_tokens[k].text}

RedeclarationErrors ==
    {i \in 1..Len(error_log) : error_log[i].message = "Variable is already declared"}

\* C4 as stated, for sources that declare one name in each declaration: every
\* declaration of a name that is already in the symbol table leaves exactly
\* one redeclaration error record, no second symbol of that name and no
\* memory offset taken, in compiler.c and in transformer.c.
C4_RedeclarationOneError ==
    (Parsed /\ SingleDeclarations) =>
        /\ Cardinality(RedeclarationErrors) = Cardinality(Redeclarations)
        /\ \A i, j \in 1..Len(symbol_table) :
               symbol_table[i].name = symbol_table[j].name => i = j
        /\ next_memory_location = SLOT_SIZE * Len(symbol_table)

\* the one call of transformer.c has returned after generate_assembly_code
T_Generated ==
    pc = "T_exited" /\ \E i \in 1..Len(phase_log) : phase_log[i].phase = "generate"

\* the variable a top-level statement assigns, <<>> when it assigns none
StatementTarget(statement) ==
    LET l == statement.left_child IN
    IF statement.node_type = "ASSIGNMENT_NODE" THEN statement.token_info.text
    ELSE IF IsNull(l) THEN <<>>
    ELSE IF statement.node_type = "DECLARATION_NODE" /\ l.node_type = "ASSIGNMENT_NODE"
    THEN l.token_info.text
    ELSE IF statement.node_type = "COMPOUND_ASSIGN_NODE" /\ l.node_type = "VARIABLE_NODE"
    THEN l.token_info.text
    ELSE IF /\ statement.node_type = "UNARY_NODE"
            /\ statement.token_info.type \in {"INCREMENT", "DECREMENT"}
            /\ l.node_type = "VARIABLE_NODE"
    THEN l.token_info.text
    ELSE <<>>

\* the memory offsets of the declared targets of the statements, in order
RECURSIVE TargetOffsets(_)
TargetOffsets(statements) ==
    IF statements = <<>> THEN <<>>
    ELSE LET i == find_variable_(symbol_table, StatementTarget(Head(statements))) IN
         (IF i # 0 THEN <<symbol_table[i].memory_location>> ELSE <<>>)
             \o TargetOffsets(Tail(statements))

\* out has, from line from on and in this order, one store for each offset
RECURSIVE StoresInOrder(_, _, _)
StoresInOrder(offsets, out, from) ==
    \/ offsets = <<>>
    \/ \E k \in from..Len(out) :
           /\ out[k].mnemonic \in {"sb", "s.d"}
           /\ out[k].offset = Head(offsets)
           /\ StoresInOrder(Tail(offsets), out, k + 1)

\* C7 as stated: the output of transformer.c has, in statement order, a store
\* to the target's memory offset for every top-level declaration with an
\* initializer, assignment, compound assignment and ++ or -- statement,
\* whatever the type of the target.
C7_EveryStatementStores ==
    T_Generated => StoresInOrder(TargetOffsets(Statements(program_start)), output, 1)

(***************************************************************************)
(* parse_expression on its own, over every well-formed token sequence of   *)
(* at most MaxExprTokens operands, binary operators and parentheses,       *)
(* that is of at most MaxExprOperators operators and pairs of parentheses, *)
(* followed by the END_OF_FILE token.                                      *)
(***************************************************************************)
MaxExprOperators == 3

\* a well-formed expression has an odd number of tokens
MaxExprTokens == 2 * MaxExprOperators + 1

Operands == {"a", "2"}

BinaryOperators == {"+", "-", "*", "/"}

\* the well-formed expressions of exactly n tokens, n odd, as token texts
RECURSIVE Expressions(_)
Expressions(n) ==
    IF n = 1 THEN {<<t>> : t \in Operands}
    ELSE {<<"(">> \o e \o <<")">> : e \in Expressions(n - 2)}
           \cup UNION {{l \o <<o>> \o r : l \in Expressions(2 * k - 1),
                                          o \in BinaryOperators,
                                          r \in Expressions(n - 2 * k)} :
                          k \in 1..((n - 1) \div 2)}

\* the token break_into_tokens saves for one of these texts
ExpressionToken(c) ==
    IF c = "a" THEN Token("IDENTIFIER", <<c>>, 1)
    ELSE IF c = "2" THEN Token("NUMBER", <<c>>, 1)
    ELSE Token(OneCharOperators[c], <<c>>, 1)

ExpressionTokens ==
    {[i \in 1..Len(e) |-> ExpressionToken(e[i])] \o <<Token("END_OF_FILE", <<>>, 1)>> :
        e \in UNION {Expressions(2 * k + 1) : k \in 0..MaxExprOperators}}

InitExpr ==
    /\ all_tokens \in ExpressionTokens
    /\ source_code = <<>>
    /\ pc = "expression"
    /\ position = 0
    /\ current_line = 1
    /\ current_token_position = 0
    /\ symbol_table = <<>>
    /\ next_memory_location = 0
    /\ error_log = <<>>
    /\ warnings = <<>>
    /\ program_start = NULL
    /\ heap = [allocs |-> 0, frees |-> 0]
    /\ used_registers = clear_registers
    /\ code_section_emitted = 0
    /\ output = <<>>
    /\ phase_log = <<>>
    /\ history = <<>>
    /\ arguments = <<>>
    /\ held = NoneHeld
    /\ returned = <<>>

\* one call of parse_expression with the cursor on the first token
ParseExpression ==
    /\ pc = "expression"
    /\ \E r \in {parse_expression_(ParserState)} :
         /\ current_token_position' = r.s.pos
         /\ symbol_table' = r.s.syms
         /\ next_memory_location' = r.s.next_memory_location
         /\ error_log' = r.s.errs
         /\ program_start' = r.node
         /\ heap' = [allocs |-> r.s.allocs, frees |-> r.s.frees]
    /\ pc' = "expression parsed"
    /\ UNCHANGED called
    /\ UNCHANGED <<source_code, position, current_line, all_tokens, warnings,
                   used_registers, code_section_emitted, output, phase_log, history>>

NextExpr == ParseExpression

SpecExpr == InitExpr /\ [][NextExpr]_vars

\* the position i of the token sequence e is outside every pair of parentheses
TopLevel(e, i) ==
    Cardinality({k \in 1..(i - 1) : e[k].type = "LEFT_PAREN"})
        = Cardinality({k \in 1..(i - 1) : e[k].type = "RIGHT_PAREN"})

\* the position of the last operator of one of the types outside every pair of
\* parentheses, 0 when there is none
LastTopLevel(e, types) ==
    LET at == {i \in 1..Len(e) : e[i].type \in types /\ TopLevel(e, i)} IN
    IF at = {} THEN 0 ELSE CHOOSE i \in at : \A j \in at : j <= i

TreeNode(node_type, token_data, left_child, right_child) ==
    [node_type |-> node_type, token_info |-> token_data,
     left_child |-> left_child, right_child |-> right_child, next |-> NULL]

\* the tree that precedence and left associativity give the expression e: it
\* splits at the last additive operator outside parentheses, failing that at
\* the last multiplicative one, failing that e is an operand or is wrapped in
\* one pair of parentheses
RECURSIVE Grouping(_)
Grouping(e) ==
    LET additive == LastTopLevel(e, {"PLUS", "MINUS"})
        multiplicative == LastTopLevel(e, {"MULTIPLY", "DIVIDE"})
        split == IF additive > 0 THEN additive ELSE multiplicative
    IN IF split > 0
       THEN TreeNode("OPERATION_NODE", e[split],
                     Grouping(SubSeq(e, 1, split - 1)),
                     Grouping(SubSeq(e, split + 1, Len(e))))
       ELSE IF e[1].type = "LEFT_PAREN" THEN Grouping(SubSeq(e, 2, Len(e) - 1))
       ELSE TreeNode(IF e[1].type = "NUMBER" THEN "NUMBER_NODE" ELSE "VARIABLE_NODE",
                     e[1], NULL, NULL)

ExpressionParsed == pc = "expression parsed"

\* C11: for every well-formed token sequence of operands, binary operators and
\* parentheses, parse_expression consumes the whole expression without an error
\* and returns the tree in which * and / bind tighter than + and -, operators
\* of equal precedence group to the left, and parentheses override both.
C11_PrecedenceAndAssociativity ==
    ExpressionParsed =>
        /\ program_start = Grouping(SubSeq(all_tokens, 1, Len(all_tokens) - 1))
        /\ error_log = <<>>
        /\ current_token_position = Len(all_tokens) - 1

\* 2 * (a - 2) has been parsed: the parentheses make the root the product
C11_Witness ==
    /\ ExpressionParsed
    /\ Len(all_tokens) = 8
    /\ all_tokens[3].type = "LEFT_PAREN"
    /\ program_start.node_type = "OPERATION_NODE"
    /\ program_start.token_info.type = "MULTIPLY"
    /\ program_start.right_child.node_type = "OPERATION_NODE"
    /\ program_start.right_child.token_info.type = "MINUS"

(***************************************************************************)
(* break_into_tokens at the capacity of all_tokens: the sources are a run  *)
(* of ";" that fills the array to within one token of MAX_TOKENS, or none, *)
(* followed by at most MaxTail characters of TailAlphabet.                 *)
(***************************************************************************)
MaxTail == 2

TailAlphabet == {"x", ";", "\n"}

Semicolons(n) == [i \in 1..n |-> ";"]

LongSources ==
    {Semicolons(n) \o tail :
        n \in {0, MAX_TOKENS - 1, MAX_TOKENS},
        tail \in UNION {[1..k -> TailAlphabet] : k \in 0..MaxTail}}

InitLexLong ==
    /\ source_code \in LongSources
    /\ pc = "lex"
    /\ position = 0
    /\ current_line = 1
    /\ all_tokens = <<>>
    /\ current_token_position = 0
    /\ symbol_table = <<>>
    /\ next_memory_location = 0
    /\ error_log = <<>>
    /\ warnings = <<>>
    /\ program_start = NULL
    /\ heap = [allocs |-> 0, frees |-> 0]
    /\ used_registers = clear_registers
    /\ code_section_emitted = 0
    /\ output = <<>>
    /\ phase_log = <<>>
    /\ history = <<>>
    /\ arguments = <<>>
    /\ held = NoneHeld
    /\ returned = <<>>

SpecLexLong == InitLexLong /\ [][NextLex]_vars

\* the line of the end of the source: one more than its newline characters
FinalLine == 1 + Cardinality({i \in 1..Len(source_code) : source_code[i] = "\n"})

\* C15 as stated: when break_into_tokens has returned, all_tokens holds
\* exactly one END_OF_FILE token, it is the last token, and its line is the
\* final line of the source, whatever the number of tokens of the source.
C15_OneEndOfFileLast ==
    pc = "lexed" =>
        /\ all_tokens # <<>>
        /\ all_tokens[Len(all_tokens)] = Token("END_OF_FILE", <<>>, FinalLine)
        /\ \A i \in 1..(Len(all_tokens) - 1) : all_tokens[i].type # "END_OF_FILE"

(***************************************************************************)
(* skip_spaces_and_comments of the two programs on its own: the first call *)
(* of break_into_tokens, over every source of at most MaxCommentLen        *)
(* characters of CommentAlphabet.  Either program may be the one that runs.*)
(***************************************************************************)
MaxCommentLen == 6

CommentAlphabet == {"/", "*", "x", "\n"}

CommentSources == UNION {[1..n -> CommentAlphabet] : n \in 0..MaxCommentLen}

InitSkip ==
    /\ source_code \in CommentSources
    /\ pc = "skip"
    /\ position = 0
    /\ current_line = 1
    /\ all_tokens = <<>>
    /\ current_token_position = 0
    /\ symbol_table = <<>>
    /\ next_memory_location = 0
    /\ error_log = <<>>
    /\ warnings = <<>>
    /\ program_start = NULL
    /\ heap = [allocs |-> 0, frees |-> 0]
    /\ used_registers = clear_registers
    /\ code_section_emitted = 0
    /\ output = <<>>
    /\ phase_log = <<>>
    /\ history = <<>>
    /\ arguments = <<>>
    /\ held = NoneHeld
    /\ returned = <<>>

\* skip_spaces_and_comments of compiler.c
Skip ==
    /\ pc = "skip"
    /\ LET st == skip_spaces_and_comments(source_code, LexState) IN
         /\ position' = st.position
         /\ current_line' = st.current_line
         /\ error_log' = st.error_log
    /\ pc' = "skipped"
    /\ UNCHANGED called
    /\ UNCHANGED <<source_code, all_tokens, current_token_position, symbol_table,
                   next_memory_location, warnings, program_start, heap, used_registers,
                   code_section_emitted, output, phase_log, history>>

\* skip_spaces_and_comments of transformer.c
T_Skip ==
    /\ pc = "skip"
    /\ LET st == T_skip_spaces_and_comments(source_code, LexState) IN
         /\ position' = st.position
         /\ current_line' = st.current_line
         /\ error_log' = st.error_log
    /\ pc' = "T skipped"
    /\ UNCHANGED called
    /\ UNCHANGED <<source_code, all_tokens, current_token_position, symbol_table,
                   next_memory_location, warnings, program_start, heap, used_registers,
                   code_section_emitted, output, phase_log, history>>

NextSkip ==
    \/ Skip
    \/ T_Skip

SpecSkip == InitSkip /\ [][NextSkip]_vars

\* the position just past the "*/" that returns the nesting depth to zero,
\* reading src from position p at depth depth; -1 when the source ends first
RECURSIVE CommentClose(_, _, _)
CommentClose(src, p, depth) ==
    IF depth = 0 THEN p
    ELSE IF p >= Len(src) THEN -1
    ELSE IF CharAt(src, p) = "/" /\ CharAt(src, p + 1) = "*"
    THEN CommentClose(src, p + 2, depth + 1)
    ELSE IF CharAt(src, p) = "*" /\ CharAt(src, p + 1) = "/"
    THEN CommentClose(src, p + 2, depth - 1)
    ELSE CommentClose(src, p + 1, depth)

\* the source starts with a multi-line comment
StartsWithComment == CharAt(source_code, 0) = "/" /\ CharAt(source_code, 1) = "*"

\* the comment at the start of the source has been skipped up to its end, or
\* reported when the source ends inside it
CommentClosedOrReported ==
    IF CommentClose(source_code, 2, 1) = -1
    THEN /\ position = Len(source_code)
         /\ error_log = <<ErrorRecord(FinalLine, "Unterminated multi-line comment", <<>>)>>
    ELSE position >= CommentClose(source_code, 2, 1)

\* C16 as stated: in both programs, a comment is skipped up to the "*/" that
\* returns its nesting depth to zero and no further than that is taken for
\* its end, and a comment still open at the end of the source records
\* 'Unterminated multi-line comment' with the current line.
C16_NestedCommentClosedOrReported ==
    (pc \in {"skipped", "T skipped"} /\ StartsWithComment) => CommentClosedOrReported

\* the same for skip_spaces_and_comments of compiler.c alone
CompilerCommentClosedOrReported ==
    (pc = "skipped" /\ StartsWithComment) => CommentClosedOrReported

(***************************************************************************)
(* create_instruction_code of the two programs and display_binary_code on  *)
(* their own, over every mnemonic of the two tables and one that is in     *)
(* neither, register operands of EncoderRegisters and immediates of        *)
(* EncoderImmediates.                                                      *)
(***************************************************************************)
CompilerMnemonics ==
    {supported_instructions[i][1] : i \in 1..Len(supported_instructions)}

TransformerMnemonics ==
    {T_supported_instructions[i][1] : i \in 1..Len(T_supported_instructions)}

EncoderMnemonics == CompilerMnemonics \cup TransformerMnemonics \cup {"nop"}

EncoderRegisters == {0, 1, 21, 31}

EncoderImmediates ==
    {0, 1, -1, 8, 32767, -32768, 65535, 65536, 2147483647, -2147483647}

EncoderCalls ==
    [instruction_name : EncoderMnemonics, source_reg : EncoderRegisters,
     target_reg : EncoderRegisters, dest_reg : EncoderRegisters,
     immediate_value : EncoderImmediates]

InitEnc ==
    /\ arguments \in EncoderCalls
    /\ held = NoneHeld
    /\ returned = <<>>
    /\ pc = "encode"
    /\ source_code = <<>>
    /\ position = 0
    /\ current_line = 1
    /\ all_tokens = <<>>
    /\ current_token_position = 0
    /\ symbol_table = <<>>
    /\ next_memory_location = 0
    /\ error_log = <<>>
    /\ warnings = <<>>
    /\ program_start = NULL
    /\ heap = [allocs |-> 0, frees |-> 0]
    /\ used_registers = clear_registers
    /\ code_section_emitted = 0
    /\ output = <<>>
    /\ phase_log = <<>>
    /\ history = <<>>

program == <<source_code, position, current_line, all_tokens, current_token_position,
             symbol_table, next_memory_location, error_log, warnings, program_start,
             heap, code_section_emitted, output, phase_log, history, held>>

\* create_instruction_code of compiler.c
Encode ==
    /\ pc = "encode"
    /\ returned' = [word |-> create_instruction_code_(
                                 arguments.instruction_name, arguments.source_reg,
                                 arguments.target_reg, arguments.dest_reg,
                                 arguments.immediate_value)]
    /\ pc' = "encoded"
    /\ UNCHANGED <<arguments, used_registers, program>>

\* create_instruction_code of transformer.c
T_Encode ==
    /\ pc = "encode"
    /\ returned' = [word |-> T_create_instruction_code_(
                                 arguments.instruction_name, arguments.source_reg,
                                 arguments.target_reg, arguments.dest_reg,
                                 arguments.immediate_value)]
    /\ pc' = "T encoded"
    /\ UNCHANGED <<arguments, used_registers, program>>

\* display_binary_code of compiler.c on the word returned
Display ==
    /\ pc = "encoded"
    /\ returned' = [word |-> returned.word, text |-> display_binary_code(returned.word)]
    /\ pc' = "displayed"
    /\ UNCHANGED <<arguments, used_registers, program>>

NextEnc ==
    \/ Encode
    \/ T_Encode
    \/ Display

SpecEnc == InitEnc /\ [][NextEnc]_vars

\* the unsigned value of the width bits of w from bit low up
RECURSIVE BitsValue(_, _, _)
BitsValue(w, low, width) ==
    IF width = 0 THEN 0 ELSE w[low] + 2 * BitsValue(w, low + 1, width - 1)

\* the opcodes of the I-type instructions
ITypeOpcode(mnemonic) ==
    CASE mnemonic = "daddiu" -> 25
      [] mnemonic = "lb" -> 32
      [] mnemonic = "sb" -> 40
      [] mnemonic = "l.d" -> 53
      [] mnemonic = "s.d" -> 61
      [] mnemonic = "lui" -> 15
      [] mnemonic = "ori" -> 13

ITypeCall ==
    \/ pc = "encoded" /\ arguments.instruction_name \in {"daddiu", "lb", "sb"}
    \/ /\ pc = "T encoded"
       /\ arguments.instruction_name \in {"daddiu", "lb", "sb", "l.d", "s.d", "lui", "ori"}

\* C17: for an I-type mnemonic, registers in 0..31 and any immediate, the word
\* create_instruction_code returns is opcode*2^26 + rs*2^21 + rt*2^16 +
\* (immediate mod 2^16): the four fields hold the opcode, rs, rt and the low
\* 16 bits of the two's complement immediate.
C17_ITypeFields ==
    ITypeCall =>
        /\ BitsValue(returned.word, 26, 6) = ITypeOpcode(arguments.instruction_name)
        /\ BitsValue(returned.word, 21, 5) = arguments.source_reg
        /\ BitsValue(returned.word, 16, 5) = arguments.target_reg
        /\ BitsValue(returned.word, 0, 16) = arguments.immediate_value % 65536

\* sb with rs 31 and the immediate -1 has been encoded
C17_Witness ==
    /\ pc = "encoded"
    /\ arguments.instruction_name = "sb"
    /\ arguments.source_reg = 31
    /\ arguments.immediate_value = -1
    /\ BitsValue(returned.word, 0, 16) = 65535

\* C18: create_instruction_code returns 0 for a mnemonic that is not in the
\* table of its program, and a nonzero word for every mnemonic of the table,
\* whatever the registers in 0..31 and the immediate.
C18_ZeroIffUnknownMnemonic ==
    /\ pc = "encoded" =>
           (returned.word = ZeroWord <=> arguments.instruction_name \notin CompilerMnemonics)
    /\ pc = "T encoded" =>
           (returned.word = ZeroWord <=> arguments.instruction_name \notin TransformerMnemonics)

\* daddu r0, r0, r0 has been encoded: every operand field is zero
C18_Witness ==
    /\ pc = "encoded"
    /\ arguments.instruction_name = "daddu"
    /\ arguments.source_reg = 0
    /\ arguments.target_reg = 0
    /\ arguments.dest_reg = 0
    /\ returned.word # ZeroWord

\* the word whose binary digits, most significant first, are those of text
ReadBinary(text) ==
    LET digits == SelectSeq(text, LAMBDA c : c # " ") IN
    [i \in BitPositions |-> IF digits[WORD_BITS - i] = "1" THEN 1 ELSE 0]

\* C19: display_binary_code writes 39 characters: 32 binary digits in eight
\* groups of four with one space between groups, and the digits read back
\* most significant first are the word.
C19_RenderingRoundTrip ==
    pc = "displayed" =>
        /\ Len(returned.text) = 39
        /\ \A j \in 1..39 :
               IF j % 5 = 0 THEN returned.text[j] = " "
               ELSE returned.text[j] \in {"0", "1"}
        /\ ReadBinary(returned.text) = returned.word

\* a word with bit 31 set and bit 30 clear, bit 0 set and bit 1 clear has been
\* rendered
C19_Witness ==
    /\ pc = "displayed"
    /\ returned.word[31] = 1
    /\ returned.word[30] = 0
    /\ returned.word[0] = 1
    /\ returned.word[1] = 0
    /\ returned.text[1] = "1"
    /\ returned.text[39] = "1"

(***************************************************************************)
(* The register pool on its own: after setup_registers, any sequence of    *)
(* get_register, get_float_register, release_register_by_name,             *)
(* release_float_register and clear_registers.  The names released are     *)
(* r0..rMaxReleased, r31 and the same float registers.                     *)
(***************************************************************************)
MaxReleased == 2

ReleasedNames ==
    {<<letter>> \o IntToText(i) : letter \in {"r", "f"}, i \in (0..MaxReleased) \cup {31}}

InitPool ==
    /\ used_registers = clear_registers
    /\ arguments = [function |-> "setup_registers"]
    /\ held = NoneHeld
    /\ returned = <<>>
    /\ pc = "pool"
    /\ source_code = <<>>
    /\ position = 0
    /\ current_line = 1
    /\ all_tokens = <<>>
    /\ current_token_position = 0
    /\ symbol_table = <<>>
    /\ next_memory_location = 0
    /\ error_log = <<>>
    /\ warnings = <<>>
    /\ program_start = NULL
    /\ heap = [allocs |-> 0, frees |-> 0]
    /\ code_section_emitted = 0
    /\ output = <<>>
    /\ phase_log = <<>>
    /\ history = <<>>

\* get_register(); the call reads the global register_pool, recorded with it
GetRegister ==
    /\ pc = "pool"
    /\ \E a \in {get_register_(used_registers)} :
         /\ used_registers' = a.used
         /\ returned' = a.reg
    /\ arguments' = [function |-> "get_register", pool |-> used_registers]
    /\ UNCHANGED <<pc, program>>

\* release_register_by_name(reg_name)
ReleaseRegisterByName ==
    /\ pc = "pool"
    /\ \E reg_name \in ReleasedNames :
         /\ used_registers' = release_register_by_name_(used_registers, reg_name)
         /\ arguments' = [function |-> "release_register_by_name", reg_name |-> reg_name]
    /\ returned' = <<>>
    /\ UNCHANGED <<pc, program>>

\* clear_registers()
ClearRegisters ==
    /\ pc = "pool"
    /\ used_registers' = clear_registers
    /\ arguments' = [function |-> "clear_registers"]
    /\ returned' = <<>>
    /\ UNCHANGED <<pc, program>>

\* get_float_register() of transformer.c: the name is the content of its
\* static buffer, or the literal "f31"
T_GetFloatRegister ==
    /\ pc = "pool"
    /\ \E a \in {T_get_float_register([used |-> used_registers, out |-> <<>>,
                                       float_reg |-> <<>>])} :
         /\ used_registers' = a.g.used
         /\ returned' = T_Name(a.g, a.reg)
    /\ arguments' = [function |-> "get_float_register"]
    /\ UNCHANGED <<pc, program>>

\* release_float_register(reg_name) of transformer.c
T_ReleaseFloatRegister ==
    /\ pc = "pool"
    /\ \E reg_name \in ReleasedNames :
         /\ used_registers' =
                T_release_float_register([used |-> used_registers, out |-> <<>>,
                                          float_reg |-> <<>>],
                                         T_Register(reg_name)).used
         /\ arguments' = [function |-> "release_float_register", reg_name |-> reg_name]
    /\ returned' = <<>>
    /\ UNCHANGED <<pc, program>>

NextPool ==
    \/ GetRegister
    \/ ReleaseRegisterByName
    \/ ClearRegisters
    \/ T_GetFloatRegister
    \/ T_ReleaseFloatRegister

SpecPool == InitPool /\ [][NextPool]_vars

Acquired == arguments.function \in {"get_register", "get_float_register"}

\* C20: after setup_registers or clear_registers and any sequence of acquires
\* and releases, the register an acquire returns is never r0 and never f0.
C20_ZeroRegisterNeverIssued ==
    Acquired => T_get_register_number_(returned) # 0

\* get_register has returned r1 in a pool whose entry for r0 had been cleared
\* by release_register_by_name("r0")
C20_Witness ==
    /\ arguments.function = "get_register"
    /\ used_registers[0] = 0
    /\ returned = <<"r", "1">>

\* registers r1..r31 are all held in the pool used
Exhausted(used) == \A i \in 1..(REGISTER_COUNT - 1) : used[i] # 0

\* C21: a get_register call made when all 31 non-zero registers are held
\* returns "r31" and leaves the pool as it was.
C21_ExhaustedPoolReturnsLast ==
    [][(arguments'.function = "get_register" /\ Exhausted(used_registers))
          => (returned' = <<"r", "3", "1">> /\ used_registers' = used_registers)]_vars

\* get_register was called on a pool with r1..r31 held and returned r31
C21_Witness ==
    /\ arguments.function = "get_register"
    /\ Exhausted(arguments.pool)
    /\ returned = <<"r", "3", "1">>
    /\ used_registers = arguments.pool

\* C22: when generate_assembly_code of transformer.c has returned, the pool
\* holds register 0 and no other: every register acquired was released.
C22_AllRegistersReleased ==
    T_Generated => used_registers = clear_registers

\* the names declared by the Declaration nodes among statements, in order
RECURSIVE DeclarationNames(_)
DeclarationNames(statements) ==
    IF statements = <<>> THEN <<>>
    ELSE (IF Head(statements).node_type = "DECLARATION_NODE"
             /\ ~IsNull(Head(statements).left_child)
          THEN <<Head(statements).left_child.token_info.text>>
          ELSE <<>>) \o DeclarationNames(Tail(statements))

\* the names add_variable accepted, in the order of the calls
DeclaredNames == [i \in 1..Len(symbol_table) |-> symbol_table[i].name]

\* C25: when parse_program of compiler.c has returned without a syntax error,
\* the statement list reached from the root by next links has one Declaration
\* node for every declared identifier, in source order.
C25_EveryDeclarationListed ==
    pc = "check" => DeclarationNames(Statements(program_start)) = DeclaredNames

\* the same for sources that declare one name in each declaration
SingleDeclarationsListed ==
    (pc = "check" /\ SingleDeclarations)
        => DeclarationNames(Statements(program_start)) = DeclaredNames

\* every call of parse_statement made by the loop of parse_program of
\* compiler.c from the parser state s reads at least one token
RECURSIVE StatementsConsume(_)
StatementsConsume(s) ==
    IF peek_next_token(s).type = "END_OF_FILE" THEN TRUE
    ELSE LET r == parse_statement_(s) IN
         r.s.pos > s.pos /\ StatementsConsume(r.s)

CompilerStatementsConsume == pc = "parse" => StatementsConsume(ParserState)

\* C26: parse_program of transformer.c terminates: its loop never calls
\* parse_statement with the cursor before END_OF_FILE and gets it back with
\* the cursor where it was.
C26_ParseProgramTerminates == pc # "T_hung"

\* for each printed register operand of a line, in the printed order, the
\* lowest bit of the 5-bit field of the word that holds the operand's role:
\* rs 21, rt or ft 16, rd or fs 11, fd 6
OperandFields(mnemonic) ==
    CASE mnemonic \in {"daddiu", "ori", "lb", "sb", "l.d", "s.d"} -> <<16, 21>>
      [] mnemonic = "lui" -> <<16>>
      [] mnemonic \in {"daddu", "dsubu", "or"} -> <<11, 21, 16>>
      [] mnemonic \in {"dmulu", "ddivu"} -> <<21, 16>>
      [] mnemonic = "mflo" -> <<11>>
      [] mnemonic = "dsll" -> <<11, 16>>
      [] mnemonic \in {"add.d", "sub.d", "mul.d", "div.d"} -> <<6, 11, 16>>
      [] mnemonic = "dmtc1" -> <<16, 11>>
      [] mnemonic = "cvt.d.l" -> <<6, 11>>
      [] OTHER -> <<>>

\* the register fields of the word of line name the registers the line prints
FieldsMatchOperands(line) ==
    \A k \in 1..Len(line.regs) :
        k <= Len(OperandFields(line.mnemonic))
            => BitsValue(line.word, OperandFields(line.mnemonic)[k], 5)
                   = T_get_register_number_(line.regs[k])

\* C27: every instruction that the code generator of transformer.c emits is
\* encoded with the registers of its assembly line in the same roles.
C27_WordMatchesLine ==
    \A i \in 1..Len(output) :
        (output[i].kind = "instruction" /\ ~output[i].encode_error)
            => FieldsMatchOperands(output[i])

\* the same for the lines that are neither dsll nor dmtc1
OtherWordsMatchLines ==
    \A i \in 1..Len(output) :
        (/\ output[i].kind = "instruction"
         /\ ~output[i].encode_error
         /\ output[i].mnemonic \notin {"dsll", "dmtc1"})
            => FieldsMatchOperands(output[i])

\* the printed registers that the instruction of line reads
RegistersRead(line) ==
    LET m == line.mnemonic
        r == line.regs
    IN CASE m \in {"daddiu", "ori", "lb", "l.d", "dsll", "cvt.d.l"} -> {r[2]}
         [] m \in {"sb", "s.d", "dmulu", "ddivu"} -> {r[1], r[2]}
         [] m \in {"daddu", "dsubu", "or", "add.d", "sub.d", "mul.d", "div.d"} -> {r[2], r[3]}
         [] m = "dmtc1" -> {r[1]}
         [] OTHER -> {}

\* the printed registers that the instruction of line writes
RegistersWritten(line) ==
    LET m == line.mnemonic
        r == line.regs
    IN CASE m \in {"daddiu", "ori", "lui", "lb", "l.d", "dsll", "cvt.d.l", "mflo",
                   "daddu", "dsubu", "or", "add.d", "sub.d", "mul.d", "div.d"} -> {r[1]}
         [] m = "dmtc1" -> {r[2]}
         [] OTHER -> {}

IsStore(line) == line.kind = "instruction" /\ line.mnemonic \in {"sb", "s.d"}

\* the first line of the sequence that line i of out belongs to: a sequence
\* ends with the store into its target variable
SequenceStart(out, i) ==
    IF \E j \in 1..(i - 1) : IsStore(out[j])
    THEN 1 + CHOOSE j \in 1..(i - 1) :
                 IsStore(out[j]) /\ \A k \in (j + 1)..(i - 1) : ~IsStore(out[k])
    ELSE 1

\* every register that line i of out reads, r0 apart, is written by an earlier
\* line of its sequence
ReadsWritten(out, i) ==
    \A reg \in RegistersRead(out[i]) \ {R0} :
        \E j \in SequenceStart(out, i)..(i - 1) :
            out[j].kind = "instruction" /\ reg \in RegistersWritten(out[j])

\* C28: in the instructions that transformer.c emits for one assignment or
\* compound assignment, every register read, r0 apart, was written by an
\* earlier instruction of that assignment.
C28_ReadAfterWrite ==
    T_Generated =>
        \A i \in 1..Len(output) : output[i].kind = "instruction" => ReadsWritten(output, i)

(***************************************************************************)
(* add_variable and find_variable on their own: at most MaxSymCalls calls  *)
(* of add_variable with names drawn from SymbolNames, and find_variable    *)
(* between them.  history is the sequence of add_variable calls made.      *)
(***************************************************************************)
MaxSymCalls == 3

\* the string of n characters c
RECURSIVE Repeated(_, _)
Repeated(c, n) == IF n = 0 THEN <<>> ELSE <<c>> \o Repeated(c, n - 1)

\* short names, the empty string, and names of MAX_NAME_LENGTH - 1,
\* MAX_NAME_LENGTH and MAX_NAME_LENGTH + 1 characters
SymbolNames ==
    {<<"a">>, <<"b">>, <<>>,
     Repeated("x", MAX_NAME_LENGTH - 1),
     Repeated("x", MAX_NAME_LENGTH),
     Repeated("x", MAX_NAME_LENGTH) \o <<"y">>}

InitSym ==
    /\ symbol_table = <<>>
    /\ next_memory_location = 0
    /\ error_log = <<>>
    /\ history = <<>>
    /\ arguments = <<>>
    /\ held = NoneHeld
    /\ returned = <<>>
    /\ pc = "symbols"
    /\ source_code = <<>>
    /\ position = 0
    /\ current_line = 1
    /\ all_tokens = <<>>
    /\ current_token_position = 0
    /\ warnings = <<>>
    /\ program_start = NULL
    /\ heap = [allocs |-> 0, frees |-> 0]
    /\ used_registers = clear_registers
    /\ code_section_emitted = 0
    /\ output = <<>>
    /\ phase_log = <<>>

\* add_variable(variable_name, 1)
AddVariable ==
    /\ pc = "symbols"
    /\ Len(history) < MaxSymCalls
    /\ \E variable_name \in SymbolNames :
         \E r \in {add_variable_([syms |-> symbol_table,
                                  next_memory_location |-> next_memory_location,
                                  errs |-> error_log], variable_name, 1)} :
            /\ symbol_table' = r.s.syms
            /\ next_memory_location' = r.s.next_memory_location
            /\ error_log' = r.s.errs
            /\ arguments' = [function |-> "add_variable", variable_name |-> variable_name]
            /\ returned' = r.ok
            /\ history' = Append(history, [variable_name |-> variable_name, ok |-> r.ok])
    /\ UNCHANGED <<pc, source_code, position, current_line, all_tokens,
                   current_token_position, warnings, program_start, heap, used_registers,
                   code_section_emitted, output, phase_log, held>>

\* find_variable(variable_name)
FindVariable ==
    /\ pc = "symbols"
    /\ \E variable_name \in SymbolNames :
         /\ returned' = find_variable_(symbol_table, variable_name)
         /\ arguments' = [function |-> "find_variable", variable_name |-> variable_name]
    /\ UNCHANGED <<pc, source_code, position, current_line, all_tokens,
                   current_token_position, symbol_table, next_memory_location, error_log,
                   warnings, program_start, heap, used_registers,
                   code_section_emitted, output, phase_log, history, held>>

NextSym ==
    \/ AddVariable
    \/ FindVariable

SpecSym == InitSym /\ [][NextSym]_vars

\* the index of the entry that the i-th add_variable call created
CreatedBy(i) == Cardinality({j \in 1..i : history[j].ok})

NamesUnique ==
    \A i, j \in 1..Len(symbol_table) :
        symbol_table[i].name = symbol_table[j].name => i = j

FoundWhereCreated ==
    \A i \in 1..Len(history) :
        history[i].ok => find_variable_(symbol_table, history[i].variable_name) = CreatedBy(i)

\* every name passed to add_variable so far fits the name field of a Symbol
NamesFit ==
    \A i \in 1..Len(history) : Len(history[i].variable_name) <= MAX_NAME_LENGTH - 1

\* C23, as stated: after any sequence of add_variable calls with arbitrary
\* names no two entries have the same name, and find_variable returns for
\* each name the entry that add_variable created for it.
C23_NamesUniqueAndFound ==
    pc = "symbols" => (NamesUnique /\ FoundWhereCreated)

\* C23, amended: the same for names of at most MAX_NAME_LENGTH - 1 characters,
\* the names that a token can carry.
C23_FittingNamesUniqueAndFound ==
    (pc = "symbols" /\ NamesFit) => (NamesUnique /\ FoundWhereCreated)

\* two names were added, a third add_variable of one of them was rejected,
\* and find_variable has returned the second entry
C23_Witness ==
    /\ pc = "symbols"
    /\ NamesFit
    /\ Len(history) = 3
    /\ history[1].ok /\ history[2].ok /\ ~history[3].ok
    /\ arguments.function = "find_variable"
    /\ arguments.variable_name = history[2].variable_name
    /\ returned = 2

(***************************************************************************)
(* save_token, add_variable and record_error at their caps.  The arrays    *)
(* start as CapSlack or fewer entries short of full: all_tokens as         *)
(* save_token leaves it after that many ';', symbol_table as add_variable  *)
(* leaves it after the names v1, v2, ..., error_log as record_error leaves *)
(* it after that many unexpected characters.                               *)
(***************************************************************************)
CapSlack == 1

Filled(cap) == (cap - CapSlack)..cap

InitCaps ==
    /\ \E n \in Filled(MAX_TOKENS) :
           all_tokens = [i \in 1..n |-> Token("SEMICOLON", <<";">>, 1)]
    /\ \E n \in Filled(MAX_SYMBOLS) :
           /\ symbol_table = [i \in 1..n |-> Symbol(<<"v">> \o IntToText(i), SLOT_SIZE * (i - 1))]
           /\ next_memory_location = SLOT_SIZE * n
    /\ \E n \in Filled(MAX_ERRORS) :
           error_log = [i \in 1..n |-> ErrorRecord(1, "Unexpected character", <<"@">>)]
    /\ history = <<>>
    /\ arguments = <<>>
    /\ held = NoneHeld
    /\ returned = <<>>
    /\ pc = "symbols"
    /\ source_code = <<>>
    /\ position = 0
    /\ current_line = 1
    /\ current_token_position = 0
    /\ warnings = <<>>
    /\ program_start = NULL
    /\ heap = [allocs |-> 0, frees |-> 0]
    /\ used_registers = clear_registers
    /\ code_section_emitted = 0
    /\ output = <<>>
    /\ phase_log = <<>>

\* save_token(type, text_value, 1)
SaveToken ==
    /\ pc = "symbols"
    /\ \E t \in {<<"IDENTIFIER", <<"a">>>>, <<"END_OF_FILE", <<>>>>} :
         \E st \in {save_token([all_tokens |-> all_tokens, error_log |-> error_log],
                                t[1], t[2], 1)} :
            /\ all_tokens' = st.all_tokens
            /\ error_log' = st.error_log
            /\ arguments' = [function |-> "save_token", type |-> t[1], text_value |-> t[2]]
    /\ returned' = <<>>
    /\ UNCHANGED <<pc, source_code, position, current_line, current_token_position,
                   symbol_table, next_memory_location, warnings, program_start, heap,
                   used_registers, code_section_emitted, output, phase_log, history, held>>

\* record_error(1, "Invalid statement starting with '%s'", "a")
RecordError ==
    /\ pc = "symbols"
    /\ error_log' = record_error(error_log, 1, "Invalid statement starting with", <<"a">>)
    /\ arguments' = [function |-> "record_error"]
    /\ returned' = <<>>
    /\ UNCHANGED <<pc, source_code, position, current_line, all_tokens,
                   current_token_position, symbol_table, next_memory_location, warnings,
                   program_start, heap, used_registers, code_section_emitted, output,
                   phase_log, history, held>>

\* add_variable(variable_name, 1) of a name not in the table and of one in it
AddVariableNearCap ==
    /\ pc = "symbols"
    /\ \E variable_name \in {<<"a">>, <<"v", "1">>} :
         \E r \in {add_variable_([syms |-> symbol_table,
                                  next_memory_location |-> next_memory_location,
                                  errs |-> error_log], variable_name, 1)} :
            /\ symbol_table' = r.s.syms
            /\ next_memory_location' = r.s.next_memory_location
            /\ error_log' = r.s.errs
            /\ arguments' = [function |-> "add_variable", variable_name |-> variable_name]
            /\ returned' = r.ok
    /\ UNCHANGED <<pc, source_code, position, current_line, all_tokens,
                   current_token_position, warnings, program_start, heap, used_registers,
                   code_section_emitted, output, phase_log, history, held>>

NextCaps ==
    \/ SaveToken
    \/ AddVariableNearCap
    \/ RecordError

SpecCaps == InitCaps /\ [][NextCaps]_vars

CapsRespected ==
    /\ Len(error_log) <= MAX_ERRORS
    /\ Len(all_tokens) <= MAX_TOKENS
    /\ Len(symbol_table) <= MAX_SYMBOLS

\* the entries of old are the first entries of new
Kept(old, new) == Len(new) >= Len(old) /\ SubSeq(new, 1, Len(old)) = old

\* the step is a call that adds to an array already full
BeyondCap ==
    \/ arguments'.function = "save_token" /\ Len(all_tokens) = MAX_TOKENS
    \/ arguments'.function = "add_variable" /\ Len(symbol_table) = MAX_SYMBOLS
    \/ arguments'.function = "record_error" /\ Len(error_log) = MAX_ERRORS

\* C24: the three counts never exceed their caps, and a call that adds to a
\* full array leaves every token, symbol and error record there was as it was.
C24_CapsHold ==
    /\ []CapsRespected
    /\ [][BeyondCap => (/\ all_tokens' = all_tokens
                        /\ symbol_table' = symbol_table
                        /\ next_memory_location' = next_memory_location
                        /\ Kept(error_log, error_log'))]_vars

\* save_token was called with all_tokens full: the call recorded its error
\* and the array still ends with the ';' that filled it
C24_Witness ==
    /\ pc = "symbols"
    /\ Len(all_tokens) = MAX_TOKENS
    /\ all_tokens[MAX_TOKENS].type = "SEMICOLON"
    /\ Len(error_log) > 0
    /\ error_log[Len(error_log)].message = "Too many tokens in program"
    /\ arguments.function = "save_token"

(***************************************************************************)
(* break_into_tokens at the end of the source.  source_code is the memory  *)
(* that the pointer passed to break_into_tokens addresses: a text of at    *)
(* most MaxEndLen characters, the terminating NUL, and the bytes that      *)
(* happen to follow the NUL, which a read past the terminator returns.     *)
(***************************************************************************)
MaxEndLen == 3

EndAlphabet == {"'", "\\", "x", "/", "*"}

\* what the memory after the terminating NUL may hold
BytesBeyond == {<<>>, <<"'">>, <<"x">>, <<"x", "'">>}

EndSources ==
    {text \o <<NUL>> \o beyond :
        text \in UNION {[1..n -> EndAlphabet] : n \in 0..MaxEndLen},
        beyond \in BytesBeyond}

InitLexEnd ==
    /\ source_code \in EndSources
    /\ pc = "lex"
    /\ position = 0
    /\ current_line = 1
    /\ all_tokens = <<>>
    /\ current_token_position = 0
    /\ symbol_table = <<>>
    /\ next_memory_location = 0
    /\ error_log = <<>>
    /\ warnings = <<>>
    /\ program_start = NULL
    /\ heap = [allocs |-> 0, frees |-> 0]
    /\ used_registers = clear_registers
    /\ code_section_emitted = 0
    /\ output = <<>>
    /\ phase_log = <<>>
    /\ history = <<>>
    /\ arguments = <<>>
    /\ held = NoneHeld
    /\ returned = <<>>

SpecLexEnd == InitLexEnd /\ [][NextLex]_vars

\* strlen(source_code): the index of the terminating NUL
SourceLength ==
    CHOOSE n \in 0..Len(source_code) :
        /\ CharAt(source_code, n) = NUL
        /\ \A k \in 0..(n - 1) : CharAt(source_code, k) # NUL

\* C29: break_into_tokens of compiler.c never has its cursor past the
\* terminating NUL of the source, so that no character it reads lies beyond it.
C29_CursorWithinSource == position <= SourceLength

\* the same for the sources without a quote
CursorWithinUnquotedSource ==
    (\A k \in 1..SourceLength : source_code[k] # "'") => position <= SourceLength

(***************************************************************************)
(* get_register and the expression generator with callers that keep what   *)
(* they acquire.  A caller acquires a register and keeps its name, gives   *)
(* back a name it keeps, or generates one assignment; held counts the      *)
(* names kept, by register.  At most MaxHeld names are kept at once, which *)
(* is more than the pool has.                                              *)
(***************************************************************************)
MaxHeld == 32

MaxNest == 2

\* the registers whose names the callers give back
GivenBack == {1, 31}

NumberLeaf == TreeNode("NUMBER_NODE", Token("NUMBER", <<"2">>, 1), NULL, NULL)

VariableLeaf == TreeNode("VARIABLE_NODE", Token("IDENTIFIER", <<"a">>, 1), NULL, NULL)

NegatedLeaf == TreeNode("UNARY_NODE", Token("MINUS", <<"-">>, 1), VariableLeaf, NULL)

SteppedLeaf == TreeNode("UNARY_NODE", Token("INCREMENT", <<"+", "+">>, 1), VariableLeaf, NULL)

Leaves == {NumberLeaf, VariableLeaf, NegatedLeaf, SteppedLeaf}

Operation(c, left_child, right_child) ==
    TreeNode("OPERATION_NODE", ExpressionToken(c), left_child, right_child)

\* ((leaf + 2) + 2) ... with n operations
RECURSIVE LeftNested(_, _)
LeftNested(leaf, n) ==
    IF n = 0 THEN leaf ELSE Operation("+", LeftNested(leaf, n - 1), NumberLeaf)

\* a * (a * ... (a * leaf)) with n operations
RECURSIVE RightNested(_, _)
RightNested(leaf, n) ==
    IF n = 0 THEN leaf ELSE Operation("*", VariableLeaf, RightNested(leaf, n - 1))

\* the full tree of n levels of subtractions over leaf
RECURSIVE Balanced(_, _)
Balanced(leaf, n) ==
    IF n = 0 THEN leaf
    ELSE Operation("-", Balanced(leaf, n - 1), Balanced(leaf, n - 1))

\* the leaves, one operation over each leaf, and the three shapes with up to
\* MaxNest levels of operations
NestedExpressions ==
    Leaves
      \cup UNION {{LeftNested(leaf, 1), RightNested(leaf, 1)} : leaf \in Leaves}
      \cup UNION {{LeftNested(NumberLeaf, n), RightNested(VariableLeaf, n),
                   Balanced(NumberLeaf, n)} : n \in 1..MaxNest}

\* the number of registers that callers keep a name of
HeldCount(h) == Cardinality({i \in 0..(REGISTER_COUNT - 1) : h[i] > 0})

\* the number of names that callers keep, over the registers from i on
RECURSIVE KeptFrom(_, _)
KeptFrom(h, i) == IF i >= REGISTER_COUNT THEN 0 ELSE h[i] + KeptFrom(h, i + 1)

NamesKept(h) == KeptFrom(h, 0)

InitHeld ==
    /\ used_registers = clear_registers
    /\ held = NoneHeld
    /\ arguments = [function |-> "setup_registers"]
    /\ returned = <<>>
    /\ pc = "held"
    /\ source_code = <<>>
    /\ position = 0
    /\ current_line = 1
    /\ all_tokens = <<>>
    /\ current_token_position = 0
    /\ symbol_table = <<Symbol(<<"a">>, 0)>>
    /\ next_memory_location = SLOT_SIZE
    /\ error_log = <<>>
    /\ warnings = <<>>
    /\ program_start = NULL
    /\ heap = [allocs |-> 0, frees |-> 0]
    /\ code_section_emitted = 0
    /\ output = <<>>
    /\ phase_log = <<>>
    /\ history = <<>>

unheld == <<source_code, pc, position, current_line, all_tokens,
            current_token_position, symbol_table, next_memory_location, error_log,
            warnings, program_start, heap, code_section_emitted, output, phase_log,
            history>>

\* get_register() by a caller that keeps the name
AcquireAndKeep ==
    /\ pc = "held"
    /\ NamesKept(held) < MaxHeld
    /\ \E a \in {get_register_(used_registers)} :
         /\ used_registers' = a.used
         /\ returned' = a.reg
         /\ held' = [held EXCEPT ![get_register_number_(a.reg)] = @ + 1]
    /\ arguments' = [function |-> "get_register"]
    /\ UNCHANGED unheld

\* release_register_by_name(reg_name) by a caller that kept reg_name
GiveBack ==
    /\ pc = "held"
    /\ \E i \in GivenBack :
         /\ held[i] > 0
         /\ used_registers' = release_register_by_name_(used_registers,
                                                        available_registers(i))
         /\ held' = [held EXCEPT ![i] = @ - 1]
         /\ arguments' = [function |-> "release_register_by_name",
                          reg_name |-> available_registers(i)]
    /\ returned' = <<>>
    /\ UNCHANGED unheld

\* generate_assignment_code("a", expression, output): returned is what it
\* wrote to output
GenerateAssignment ==
    /\ pc = "held"
    /\ \E expression \in NestedExpressions :
         /\ \E g \in {generate_assignment_code_(<<"a">>, expression,
                                                [used |-> used_registers, out |-> <<>>])} :
              /\ used_registers' = g.used
              /\ returned' = g.out
         /\ arguments' = [function |-> "generate_assignment_code",
                          expression |-> expression]
    /\ UNCHANGED held
    /\ UNCHANGED unheld

NextHeld ==
    \/ AcquireAndKeep
    \/ GiveBack
    \/ GenerateAssignment

SpecHeld == InitHeld /\ [][NextHeld]_vars

\* the most registers that generate_expression_code(node) holds at once
RECURSIVE Peak(_)
Peak(node) ==
    IF IsNull(node) THEN 0
    ELSE IF node.node_type = "OPERATION_NODE"
    THEN 2 + (IF Peak(node.left_child) > Peak(node.right_child)
              THEN Peak(node.left_child) ELSE Peak(node.right_child))
    ELSE IF node.node_type = "UNARY_NODE" /\ node.token_info.text \in {<<"+">>, <<"-">>}
    THEN Peak(node.left_child)
    ELSE IF node.node_type = "UNARY_NODE" THEN 1
    ELSE 0

ArithmeticMnemonics == {"daddu", "dsubu", "dmulu", "ddivu"}

\* the lines of a binary operation: <op> result, left, right
IsBinaryOperation(line) ==
    line.kind = "instruction" /\ line.mnemonic \in ArithmeticMnemonics /\ line.regs[2] # R0

\* the registers that a line of compiler.c reads and the register it writes
OperandsRead(line) ==
    IF line.kind # "instruction" THEN {}
    ELSE IF line.mnemonic \in ArithmeticMnemonics THEN {line.regs[2], line.regs[3]}
    ELSE IF line.mnemonic = "sb" THEN {line.regs[1], line.regs[2]}
    ELSE {line.regs[2]}

OperandsWritten(line) ==
    IF line.kind # "instruction" \/ line.mnemonic = "sb" THEN {} ELSE {line.regs[1]}

OperandsDistinct(out) ==
    \A i \in 1..Len(out) :
        IsBinaryOperation(out[i]) =>
            /\ out[i].regs[1] # out[i].regs[2]
            /\ out[i].regs[1] # out[i].regs[3]
            /\ out[i].regs[2] # out[i].regs[3]

\* a register written twice is read in between, the second writer included
NoneOverwrittenUnread(out) ==
    \A i \in 1..Len(out) : \A j \in (i + 1)..Len(out) :
        \A reg \in OperandsWritten(out[i]) \cap OperandsWritten(out[j]) :
            \E k \in (i + 1)..j : reg \in OperandsRead(out[k])

\* no line writes a register that a caller keeps
KeptUntouched(out, h) ==
    \A i \in 1..Len(out) : \A reg \in OperandsWritten(out[i]) :
        h[get_register_number_(reg)] = 0

WithinPool == HeldCount(held) + 1 + Peak(arguments.expression) <= REGISTER_COUNT - 1

\* C30: while callers keep fewer than 31 registers, get_register returns a
\* register that none of them keeps; and an assignment whose generation holds,
\* with what the callers keep, at most 31 registers at once writes binary
\* operations whose result, left and right registers are pairwise distinct,
\* never writes a register twice without a read in between, and never writes
\* a register that a caller keeps.
C30_AcquiredRegistersExclusive ==
    /\ [][(arguments'.function = "get_register" /\ HeldCount(held) < REGISTER_COUNT - 1)
              => held[get_register_number_(returned')] = 0]_vars
    /\ []((arguments.function = "generate_assignment_code" /\ WithinPool)
              => /\ OperandsDistinct(returned)
                 /\ NoneOverwrittenUnread(returned)
                 /\ KeptUntouched(returned, held))

\* the callers keep 28 registers and the assignment of one operation has used
\* the last three: its result is r29 and its operands are r30 and r31
C30_Witness ==
    /\ arguments.function = "generate_assignment_code"
    /\ HeldCount(held) = 28
    /\ Peak(arguments.expression) = 2
    /\ \E i \in 1..Len(returned) :
         /\ IsBinaryOperation(returned[i])
         /\ returned[i].regs = <<available_registers(29), available_registers(30),
                                 available_registers(31)>>

\* beyond the pool the operands coincide
BeyondPoolOperandsDistinct ==
    arguments.function = "generate_assignment_code" => OperandsDistinct(returned)

====
